---- MODULE Spec2Model ----
(***************************************************************************)
(* Fan-out engine of PlaylistInteraction (music/models/playlist_interaction *)
(* .py) and the PlaylistService operations that drive it                   *)
(* (music/services/playlist.py).                                           *)
(*                                                                         *)
(* The stator engine (stator.models: transition_perform, the scheduler and *)
(* its transactions) and the Identity / Follow / Block / FanOut models are *)
(* imported by the sources but are not part of them; they are modelled     *)
(* from the design document (sections 3, 4.1 and 5).                       *)
(***************************************************************************)
EXTENDS Integers, Sequences, FiniteSets, TLC

\* ------------------------------------------------------------------ bounds
NumIdentities == 3
MaxInteractions == 1
NumWorkers == 2
MaxBlocks == 1
MaxFaults == 1
MaxActivities == 1
MaxVotes == 2
MaxElapses == 2
MaxCalls == 2

Ids == 1..NumIdentities
\* the playlist the interactions are about
Playlists == {1}
Workers == 1..NumWorkers
Activities == 1..MaxActivities
\* the create_votes calls that can be under way at the same time
Calls == 1..MaxCalls

\* ------------------------------------------------------- program constants
\* PlaylistInteraction.Types
Types == {"like", "boost", "vote", "pin"}

\* PlaylistInteractionStates: the four declared states
States == {"new", "fanned_out", "undone", "undone_fanned_out"}

\* new.transitions_to(fanned_out) etc.
Transitions ==
    { <<"new", "fanned_out">>,
      <<"fanned_out", "undone">>,
      <<"undone", "undone_fanned_out">> }

\* PlaylistInteractionStates.group_active()
group_active == {"new", "fanned_out"}

\* mutant: fanned_out carries a try_interval as well
AutoStates_fanned_out == {"new", "fanned_out", "undone"}

\* States that carry a try_interval, i.e. that the scheduler progresses
AutoStates == {"new", "undone"}

\* mutant: undone is swept as well
DeleteStates_undone == {"undone", "undone_fanned_out"}

\* the states that carry delete_after
DeleteStates == {"undone_fanned_out"}

\* State(delete_after=24 * 60 * 60): seconds a row is kept in the state
delete_after == 24 * 60 * 60

\* mutant: the handler is tried again when the row would be swept
try_interval_delete_after == delete_after

\* State(try_interval=300): seconds between two attempts of a handler
try_interval == 300

\* FanOut.Types used by the two handlers
FanOutTypes == {"interaction", "undo_interaction"}

\* Values of Identity.shared_inbox_uri: None, the empty string, or a URI.
\* Python's `not uri` is true of the first two.
None == "None"
InboxValues == {None, "", "https://s1/inbox"}

Falsy(uri) == uri = None \/ uri = ""

\* object_uri of an interaction row: 0 stands for None (locally created)
NoUri == 0

\* QuestionData.mode
Modes == {"oneOf", "anyOf"}

\* QuestionData.options: the names of the poll's options, in order
OptionNames == << "A", "B" >>

\* the indexes create_votes can be called with: 0 .. len(options) - 1 are the
\* options, len(options) is out of range
ChoiceIndexes == 0..Len(OptionNames)

\* the option text an inbound vote can carry: an option's name or another
VoteNames == {"A", "Z"}

VARIABLES
    local,              \* Identity.local
    shared_inbox_uri,   \* Identity.shared_inbox_uri
    follows,            \* Follow rows [source, target, boosts, active]
    blocks,             \* Block rows [source, target, mute, active]
    author,             \* Playlist.author
    playlist_local,     \* Playlist.local
    mode,               \* Playlist.type_data.mode
    question,           \* Playlist.type_data, as stored: option votes, voter_count
    ended,              \* timezone.now() > Playlist.type_data.end_time
    at_end,             \* timezone.now() = Playlist.type_data.end_time
    stats,              \* Playlist.stats, as stored
    timeline_events,    \* interactions that TimelineEvent rows refer to
    interactions,       \* PlaylistInteraction rows, indexed by primary key
    fanouts,            \* committed FanOut rows, in creation order
    workers,            \* scheduler workers: position and row snapshot
    faults,             \* number of injected handler failures so far
    result,             \* outcome of the last operation or scheduler step
    now,                \* timezone.now(), in seconds
    elapses,            \* number of times the clock was advanced
    purged,             \* primary keys of the interactions the sweep deleted
    playlist_states,    \* Playlist.state, state_changed, state_next_attempt
    calls               \* create_votes calls between their checks and their rows

config == <<local, shared_inbox_uri, follows, blocks, author, playlist_local,
            mode>>
poll == <<question, ended, at_end>>
expiry == <<ended, at_end>>
stator == <<now, elapses, purged, playlist_states>>
vars == <<local, shared_inbox_uri, follows, blocks, author, playlist_local,
          mode, question, ended, stats, timeline_events,
          interactions, fanouts, workers, faults, result,
          now, elapses, purged, playlist_states, at_end, calls>>

\* --------------------------------------------------------------- helpers
\* the stored interactions: the rows created, less those the sweep deleted
InteractionIds == (1..Len(interactions)) \ purged

\* A set of identities as a sequence in ascending primary-key order
RECURSIVE SortedSeq(_)
SortedSeq(S) ==
    IF S = {} THEN << >>
    ELSE LET m == CHOOSE x \in S : \A y \in S : x <= y
         IN <<m>> \o SortedSeq(S \ {m})

\* All enumeration orders of a set (iteration order of a Python set)
Orders(S) ==
    { s \in [1..Cardinality(S) -> S] :
        \A i, j \in 1..Cardinality(S) : i # j => s[i] # s[j] }

FanOutRow(type, identity, id) ==
    [type |-> type, identity |-> identity, interaction |-> id]

\* FanOut rows of one interaction and one direction
RowsOf(id, type) ==
    SelectSeq(fanouts, LAMBDA r : r.interaction = id /\ r.type = type)

\* Number of rows of a sequence addressed to an identity
RECURSIVE CountTo(_, _)
CountTo(rows, identity) ==
    IF rows = << >> THEN 0
    ELSE (IF Head(rows).identity = identity THEN 1 ELSE 0)
         + CountTo(Tail(rows), identity)

Recipients(rows) == { rows[k].identity : k \in 1..Len(rows) }

\* ---------------------------------------------------------- get_targets
\* identity.inbound_follows
inbound_follows(identity) == { f \in follows : f.target = identity }

\* mutant: the mute=False filter is missing
outbound_hard_blocks_and_mutes(identity) ==
    { b \in blocks : b.source = identity /\ b.active }

\* identity.outbound_blocks.active().filter(mute=False)
outbound_hard_blocks(identity) ==
    { b \in blocks : b.source = identity /\ b.active /\ ~b.mute }

\* mutant: the .active() filter is missing
Candidates_any_state(inst) ==
    {author[inst.playlist]} \cup
    { f.source : f \in { g \in inbound_follows(inst.identity) :
                           inst.type = "boost" => g.boosts } }

\* mutant: the boosts=True filter is missing
Candidates_all_follows(inst) ==
    {author[inst.playlist]} \cup
    { f.source : f \in { g \in inbound_follows(inst.identity) : g.active } }

\* targets after the follow loop: the author plus the active followers
\* (for a boost: only those following with boosts=True)
Candidates(inst) ==
    {author[inst.playlist]} \cup
    { f.source : f \in { g \in inbound_follows(inst.identity) :
                           g.active /\ (inst.type = "boost" => g.boosts) } }

\* targets after the block loop
Unblocked(inst) ==
    Candidates(inst) \ { b.target : b \in outbound_hard_blocks(inst.identity) }

\* the dedupe loop over the targets in enumeration order ord, from position k
RECURSIVE DedupeLoop(_, _, _, _, _)
DedupeLoop(inst, ord, k, deduped_targets, shared_inboxes) ==
    IF k > Len(ord) THEN deduped_targets
    ELSE LET target == ord[k] IN
         IF local[target]
         THEN DedupeLoop(inst, ord, k + 1,
                         deduped_targets \cup {target}, shared_inboxes)
         ELSE IF local[inst.identity]
         THEN IF Falsy(shared_inbox_uri[target])
              THEN DedupeLoop(inst, ord, k + 1,
                              deduped_targets \cup {target}, shared_inboxes)
              ELSE IF shared_inbox_uri[target] \notin shared_inboxes
              THEN DedupeLoop(inst, ord, k + 1,
                              deduped_targets \cup {target},
                              shared_inboxes \cup {shared_inbox_uri[target]})
              ELSE DedupeLoop(inst, ord, k + 1, deduped_targets, shared_inboxes)
         ELSE DedupeLoop(inst, ord, k + 1, deduped_targets, shared_inboxes)

\* mutant: remote targets are not collapsed by shared inbox
get_targets_no_dedupe(inst, ord) ==
    { ord[k] : k \in { j \in 1..Len(ord) :
                         local[ord[j]] \/ local[inst.identity] } }

\* mutant: a remote target with no shared inbox is not kept
get_targets_inbox_only(inst, ord) ==
    { t \in DedupeLoop(inst, ord, 1, {}, {}) :
        local[t] \/ ~Falsy(shared_inbox_uri[t]) }

\* mutant: every unblocked candidate is returned, local or not
get_targets_no_locality(inst, ord) == { ord[k] : k \in 1..Len(ord) }

\* get_targets, with the set's enumeration order made explicit
get_targets(inst, ord) == DedupeLoop(inst, ord, 1, {}, {})

\* every set get_targets can return for the interaction
TargetSets(inst) == { get_targets(inst, ord) : ord \in Orders(Unblocked(inst)) }

\* ------------------------------------------------------------- handlers
\* One FanOut row per target, in ascending primary-key order
TargetRows(type, targets, id) ==
    LET ord == SortedSeq(targets)
    IN [k \in 1..Len(ord) |-> FanOutRow(type, ord[k], id)]

\* "And one for themselves if they're local and it's a boost"
SelfRow(type, inst, id) ==
    IF inst.type = "boost" /\ local[inst.identity]
    THEN << FanOutRow(type, inst.identity, id) >>
    ELSE << >>

\* mutant: "and" for "or"
LikeFansOut_and(inst) == local[inst.identity] /\ playlist_local[inst.playlist]

\* a like is delivered to the author if the liker is local or the playlist is
LikeFansOut(inst) == local[inst.identity] \/ playlist_local[inst.playlist]

\* mutant: the rule of the like
VoteFansOut_like(inst) == local[inst.identity] \/ playlist_local[inst.playlist]

\* a vote is delivered to the author if it is a local vote on a remote playlist
VoteFansOut(inst) == local[inst.identity] /\ ~playlist_local[inst.playlist]

\* a handler that returns None leaves the row in its state
Stay == "None"

\* mutant: the handler returns None after creating its rows
handle_new_state_stay == Stay

\* return cls.fanned_out
handle_new_state == "fanned_out"

\* mutant: the handler returns None after creating its rows
handle_undone_state_stay == Stay

\* return cls.undone_fanned_out
handle_undone_state == "undone_fanned_out"

\* PlaylistInteractionStates.handle_new; targets is the set get_targets
\* returned.  raised: the handler ended with ValueError.
handle_new(inst, id, targets) ==
    IF inst.type = "boost" \/ inst.type = "pin"
    THEN [raised |-> FALSE, state |-> handle_new_state,
          rows |-> TargetRows("interaction", targets, id)
                   \o SelfRow("interaction", inst, id)]
    ELSE IF inst.type = "like"
    THEN [raised |-> FALSE, state |-> handle_new_state,
          rows |-> (IF LikeFansOut(inst)
                    THEN << FanOutRow("interaction", author[inst.playlist], id) >>
                    ELSE << >>)
                   \o SelfRow("interaction", inst, id)]
    ELSE IF inst.type = "vote"
    THEN [raised |-> FALSE, state |-> handle_new_state,
          rows |-> (IF VoteFansOut(inst)
                    THEN << FanOutRow("interaction", author[inst.playlist], id) >>
                    ELSE << >>)
                   \o SelfRow("interaction", inst, id)]
    ELSE [raised |-> TRUE, state |-> inst.state, rows |-> << >>]

\* mutant: only the active follows, as in get_targets
UndoFollowSources_active(inst) ==
    { f.source : f \in { g \in inbound_follows(inst.identity) :
                           g.active /\ (local[g.source] \/ local[g.target]) } }

\* mutant: "or follow.target.local" is missing
UndoFollowSources_local_source(inst) ==
    { f.source : f \in { g \in inbound_follows(inst.identity) : local[g.source] } }

\* sources of the inbound follows with at least one local side
UndoFollowSources(inst) ==
    { f.source : f \in { g \in inbound_follows(inst.identity) :
                           local[g.source] \/ local[g.target] } }

\* PlaylistInteractionStates.handle_undone
handle_undone(inst, id) ==
    IF inst.type = "boost" \/ inst.type = "pin"
    THEN [raised |-> FALSE, state |-> handle_undone_state,
          rows |-> TargetRows("undo_interaction", UndoFollowSources(inst), id)
                   \o SelfRow("undo_interaction", inst, id)]
    ELSE IF inst.type = "like"
    THEN [raised |-> FALSE, state |-> handle_undone_state,
          rows |-> << FanOutRow("undo_interaction", author[inst.playlist], id) >>
                   \o SelfRow("undo_interaction", inst, id)]
    ELSE [raised |-> TRUE, state |-> inst.state, rows |-> << >>]

\* the handler of the state the row was fetched in
Handler(inst, id, targets) ==
    IF inst.state = "new" THEN handle_new(inst, id, targets)
    ELSE handle_undone(inst, id)

\* ------------------------------------------------- state machine engine
\* mutant: transition_perform updates the state without looking at the graph
CanTransition_any(from, to) == TRUE

\* transition_perform validates that the edge is declared
CanTransition(from, to) == <<from, to>> \in Transitions

\* the atomic update of a transition: the state, state_changed, and the
\* row is due at once in its new state
SetState(rows, id, state) ==
    [rows EXCEPT ![id].state = state,
                 ![id].state_changed = now,
                 ![id].state_next_attempt = now]

\* an attempt that did not leave the state: the next one is due after the
\* try interval
Attempted(rows, id) ==
    [rows EXCEPT ![id].state_next_attempt = now + try_interval]

\* what the caller of an operation sees: the exception raised, if any
\* (PollExpired and DuplicateVote are the two ValueErrors of create_votes)
Errors == {"InvalidTransition", "ValueError", "AttributeError",
           "MultipleObjectsReturned", "error",
           "PollExpired", "DuplicateVote", "IndexError", "DoesNotExist"}

\* a worker that found the row already moved on reports "stale"; an inbound
\* handler that returned because nothing was found reports "absent", one
\* that met the row of an activity it had stored before reports "found",
\* interact_as on an interaction that is active reports "active"
Outcome(op, outcome, id) ==
    IF outcome \in Errors \cup {"stale", "absent", "found", "active"}
    THEN [op |-> op, outcome |-> outcome]
    ELSE [op |-> "any", outcome |-> "ok"]

\* mutant: the rows are inserted outside the transaction
RolledBack_kept(rows) == rows

\* the rows of a handler run that was rolled back with its transaction
RolledBack(rows) == << >>

\* mutant: the transition is applied without looking at the current state
StillCurrent_unchecked(w) == TRUE

\* at transition time the worker compares the row's state with the one it
\* fetched; a worker that lost the race does nothing
StillCurrent(w) == interactions[workers[w].id].state = workers[w].observed

Idle == [pc |-> "idle", id |-> 0, observed |-> "none"]

\* no create_votes call is between its checks and its rows
NoCall == [pc |-> "idle"]

\* a worker picks up a row in a state with a try_interval. The clock is
\* not looked at: where the clock is not advanced, a pass stands for a pass
\* at any later time (BeginDue is the pass with the clock)
Begin(w, id) ==
    /\ workers[w].pc = "idle"
    /\ id \in InteractionIds
    /\ interactions[id].state \in AutoStates
    /\ workers' = [workers EXCEPT ![w] =
                     [pc |-> "running", id |-> id,
                      observed |-> interactions[id].state]]
    /\ result' = Outcome("begin", "ok", id)
    /\ UNCHANGED <<config, calls, stator, poll, stats, timeline_events, interactions, fanouts, faults>>

\* the handler returned: its rows and the transition are committed together
Commit(w) ==
    /\ workers[w].pc = "running"
    /\ LET id == workers[w].id
           inst == [interactions[id] EXCEPT !.state = workers[w].observed]
       IN \E targets \in TargetSets(inst) :
            LET run == Handler(inst, id, targets)
            IN /\ ~run.raised
               /\ IF ~StillCurrent(w)
                  THEN /\ fanouts' = fanouts \o RolledBack(run.rows)
                       /\ UNCHANGED interactions
                       /\ result' = Outcome("handler", "stale", id)
                  ELSE IF run.state = Stay
                  THEN /\ fanouts' = fanouts \o run.rows
                       /\ interactions' = Attempted(interactions, id)
                       /\ result' = Outcome("handler", "ok", id)
                  ELSE IF CanTransition(inst.state, run.state)
                  THEN /\ fanouts' = fanouts \o run.rows
                       /\ interactions' = SetState(interactions, id, run.state)
                       /\ result' = Outcome("handler", "ok", id)
                  ELSE /\ fanouts' = fanouts \o RolledBack(run.rows)
                       /\ UNCHANGED interactions
                       /\ result' = Outcome("handler", "InvalidTransition", id)
    /\ workers' = [workers EXCEPT ![w] = Idle]
    /\ UNCHANGED <<config, calls, stator, poll, stats, timeline_events, faults>>

\* the handler raised ValueError: nothing is committed, the row stays
Raise(w) ==
    /\ workers[w].pc = "running"
    /\ LET id == workers[w].id
           inst == [interactions[id] EXCEPT !.state = workers[w].observed]
           run == Handler(inst, id, {})
       IN /\ run.raised
          /\ fanouts' = fanouts \o RolledBack(run.rows)
          /\ interactions' = IF StillCurrent(w)
                             THEN Attempted(interactions, id)
                             ELSE interactions
          /\ result' = Outcome("handler", "ValueError", id)
    /\ workers' = [workers EXCEPT ![w] = Idle]
    /\ UNCHANGED <<config, calls, stator, poll, stats, timeline_events, faults>>

\* a FanOut insert failed after k rows of the run had been created
Fault(w) ==
    /\ workers[w].pc = "running"
    /\ faults < MaxFaults
    /\ LET id == workers[w].id
           inst == [interactions[id] EXCEPT !.state = workers[w].observed]
       IN \E targets \in TargetSets(inst) :
            LET run == Handler(inst, id, targets)
            IN /\ ~run.raised
               /\ \E k \in 0..(Len(run.rows) - 1) :
                    fanouts' = fanouts \o RolledBack(SubSeq(run.rows, 1, k))
               /\ interactions' = IF StillCurrent(w)
                                  THEN Attempted(interactions, id)
                                  ELSE interactions
               /\ result' = Outcome("handler", "error", id)
    /\ faults' = faults + 1
    /\ workers' = [workers EXCEPT ![w] = Idle]
    /\ UNCHANGED <<config, calls, stator, poll, stats, timeline_events>>

\* ---------------------------------------------------- PlaylistService
\* the playlist's vote rows, whatever their state
VoteRows(rows, playlist) ==
    { i \in 1..Len(rows) : rows[i].type = "vote" /\ rows[i].playlist = playlist }

\* Playlist.calculate_stats: the playlist's likes and boosts in an active state
calculate_stats(rows, playlist) ==
    [t \in {"like", "boost"} |->
        Cardinality({ i \in 1..Len(rows) :
                        /\ rows[i].playlist = playlist
                        /\ rows[i].type = t
                        /\ rows[i].state \in group_active })]

\* Playlist.calculate_type_data: a local poll derives its counts from the stored
\* votes, a remote poll keeps the counts it carries; the result is saved
calculate_type_data(data, rows, playlist) ==
    IF playlist_local[playlist]
    THEN [votes |-> [n \in 1..Len(OptionNames) |->
                        Cardinality({ i \in VoteRows(rows, playlist) :
                                        rows[i].value = OptionNames[n] })],
          voter_count |->
              Cardinality({ rows[i].identity : i \in VoteRows(rows, playlist) })]
    ELSE data

\* the stored statistics and poll data after an operation that ended with
\* outcome and recalculates them as its last step
StatsAfter(outcome, rows, playlist) ==
    IF outcome \in Errors THEN stats
    ELSE [stats EXCEPT ![playlist] = calculate_stats(rows, playlist)]

TypeDataAfter(outcome, rows, playlist) ==
    IF outcome \in Errors THEN question
    ELSE [question EXCEPT ![playlist] =
            calculate_type_data(question[playlist], rows, playlist)]

NewRow(type, identity, playlist, uri) ==
    [type |-> type, identity |-> identity, playlist |-> playlist,
     state |-> "new", object_uri |-> uri, value |-> None,
     state_changed |-> now, state_next_attempt |-> now]

\* PlaylistInteraction.objects.filter(type=, identity=, playlist=)
Matching(type, identity, playlist) ==
    { i \in InteractionIds :
        /\ interactions[i].type = type
        /\ interactions[i].identity = identity
        /\ interactions[i].playlist = playlist }

\* mutant: a row that is found is put back into new whatever its state
InteractAsWithin_reset(identity, type, playlist, limit) ==
    /\ local[identity]
    /\ LET m == Matching(type, identity, playlist) IN
       IF m = {}
       THEN /\ Len(interactions) < limit
            /\ interactions' =
                 Append(interactions, NewRow(type, identity, playlist, NoUri))
            /\ result' = Outcome("interact_as", "created", Len(interactions) + 1)
       ELSE LET i == CHOOSE x \in m : TRUE IN
            /\ interactions' = SetState(interactions, i, "new")
            /\ result' = Outcome("interact_as", "ok", i)
    /\ stats' = StatsAfter(result'.outcome, interactions', playlist)
    /\ UNCHANGED <<config, calls, stator, poll, timeline_events, fanouts, workers, faults>>

\* PlaylistService.interact_as, the table of interactions holding at most
\* limit rows
InteractAsWithin(identity, type, playlist, limit) ==
    /\ local[identity]
    /\ LET m == Matching(type, identity, playlist) IN
       IF m = {}
       THEN /\ Len(interactions) < limit
            /\ interactions' =
                 Append(interactions, NewRow(type, identity, playlist, NoUri))
            /\ result' = Outcome("interact_as", "created", Len(interactions) + 1)
       ELSE IF Cardinality(m) > 1
       THEN /\ UNCHANGED interactions
            /\ result' = Outcome("interact_as", "MultipleObjectsReturned", 0)
       ELSE LET i == CHOOSE x \in m : TRUE IN
            IF interactions[i].state \notin group_active
            THEN IF CanTransition(interactions[i].state, "new")
                 THEN /\ interactions' = SetState(interactions, i, "new")
                      /\ result' = Outcome("interact_as", "ok", i)
                 ELSE /\ UNCHANGED interactions
                      /\ result' = Outcome("interact_as", "InvalidTransition", i)
            ELSE /\ UNCHANGED interactions
                 /\ result' = Outcome("interact_as", "active", i)
    /\ stats' = StatsAfter(result'.outcome, interactions', playlist)
    /\ UNCHANGED <<config, calls, stator, poll, timeline_events, fanouts, workers, faults>>

\* PlaylistService.interact_as
InteractAs(identity, type, playlist) ==
    InteractAsWithin(identity, type, playlist, MaxInteractions)

\* the loop of uninteract_as: each row is updated in its own statement, the
\* first InvalidTransition ends the loop
RECURSIVE UndoLoop(_, _)
UndoLoop(rows, ids) ==
    IF ids = << >> THEN [rows |-> rows, raised |-> FALSE, id |-> 0]
    ELSE IF CanTransition(rows[Head(ids)].state, "undone")
    THEN LET rest == UndoLoop(SetState(rows, Head(ids), "undone"), Tail(ids))
         IN [rest EXCEPT !.id = IF rest.id = 0 THEN Head(ids) ELSE rest.id]
    ELSE [rows |-> rows, raised |-> TRUE, id |-> Head(ids)]

\* PlaylistService.uninteract_as
UninteractAs(identity, type, playlist) ==
    /\ local[identity]
    /\ LET loop == UndoLoop(interactions,
                            SortedSeq(Matching(type, identity, playlist)))
       IN /\ interactions' = loop.rows
          /\ result' = Outcome("uninteract_as",
                               IF loop.raised THEN "InvalidTransition"
                               ELSE IF loop.id = 0 THEN "noop" ELSE "ok",
                               loop.id)
    /\ stats' = StatsAfter(result'.outcome, interactions', playlist)
    /\ UNCHANGED <<config, calls, stator, poll, timeline_events, fanouts, workers, faults>>

\* PlaylistService.delete: PlaylistStates declares outdated and updated
\* only, so the first statement (PlaylistStates.deleted) fails and the
\* interactions of the playlist are never reached
Delete(playlist) ==
    /\ result' = Outcome("delete", "AttributeError", 0)
    /\ UNCHANGED <<config, calls, stator, poll, stats, timeline_events, interactions, fanouts,
                   workers, faults>>

\* ------------------------------------------------------ inbound activities
ByUri(uri) == { i \in InteractionIds : interactions[i].object_uri = uri }

\* by_ap's classification of the wire type
WireType(type) == IF type = "Like" THEN "like" ELSE "boost"

\* the ids an inbound activity can carry: one more than can be stored
InboundUris == 1..(MaxActivities + 1)

\* the URI of a playlist that is neither stored nor can be fetched
Unresolvable == 0

\* Playlist.by_object_uri(target, fetch=True) returns a playlist; it raises
\* Playlist.DoesNotExist otherwise
Resolves(playlist) == playlist \in Playlists

\* mutant: the handlers have no except clause for DoesNotExist
NotFound_raised == "DoesNotExist"

\* handle_ap and handle_undo_ap catch DoesNotExist of the interaction and of
\* the playlist and return
NotFound == "absent"

\* mutant: a delivery of a stored activity puts its row back into new
HandleAp_reset(actor, wire, uri, playlist) ==
    /\ ~local[actor]
    /\ IF ByUri(uri) # {}
       THEN /\ interactions' = [interactions EXCEPT
                              ![CHOOSE i \in ByUri(uri) : TRUE].state = "new"]
            /\ result' = Outcome("handle_ap", "found",
                                 CHOOSE i \in ByUri(uri) : TRUE)
       ELSE IF ~Resolves(playlist)
       THEN /\ UNCHANGED interactions
            /\ result' = Outcome("handle_ap", NotFound, 0)
       ELSE /\ Len(interactions) < MaxInteractions
            /\ interactions' =
                 Append(interactions,
                        NewRow(WireType(wire), actor, playlist, uri))
            /\ result' = Outcome("handle_ap", "created", Len(interactions) + 1)
    /\ stats' = IF Resolves(playlist)
                THEN StatsAfter(result'.outcome, interactions', playlist)
                ELSE stats
    /\ question' = IF Resolves(playlist)
                   THEN TypeDataAfter(result'.outcome, interactions', playlist)
                   ELSE question
    /\ UNCHANGED <<config, calls, stator, expiry, timeline_events, fanouts, workers, faults>>

\* PlaylistInteraction.handle_ap for a Like or an Announce
HandleAp(actor, wire, uri, playlist) ==
    /\ ~local[actor]
    /\ IF ByUri(uri) # {}
       THEN /\ UNCHANGED interactions
            /\ result' = Outcome("handle_ap", "found",
                                 CHOOSE i \in ByUri(uri) : TRUE)
       ELSE IF ~Resolves(playlist)
       THEN /\ UNCHANGED interactions
            /\ result' = Outcome("handle_ap", NotFound, 0)
       ELSE /\ Len(interactions) < MaxInteractions
            /\ interactions' =
                 Append(interactions,
                        NewRow(WireType(wire), actor, playlist, uri))
            /\ result' = Outcome("handle_ap", "created", Len(interactions) + 1)
    /\ stats' = IF Resolves(playlist)
                THEN StatsAfter(result'.outcome, interactions', playlist)
                ELSE stats
    /\ question' = IF Resolves(playlist)
                   THEN TypeDataAfter(result'.outcome, interactions', playlist)
                   ELSE question
    /\ UNCHANGED <<config, calls, stator, expiry, timeline_events, fanouts, workers, faults>>

\* mutant: the actor of the Undo is not compared with the interaction's
ActorMatches_unchecked(actor, inst) == TRUE

\* data["actor"] == interaction.identity.actor_uri
ActorMatches(actor, inst) == actor = inst.identity

\* PlaylistInteraction.handle_undo_ap: one transaction; an exception undoes
\* the deletion of the timeline events
HandleUndoAp(actor, uri) ==
    /\ ~local[actor]
    /\ IF ByUri(uri) = {}
       THEN /\ UNCHANGED <<interactions, timeline_events, stats, question>>
            /\ result' = Outcome("handle_undo_ap", NotFound, 0)
       ELSE LET i == CHOOSE x \in ByUri(uri) : TRUE IN
            IF ~ActorMatches(actor, interactions[i])
            THEN /\ UNCHANGED <<interactions, timeline_events, stats, question>>
                 /\ result' = Outcome("handle_undo_ap", "ValueError", i)
            ELSE IF CanTransition(interactions[i].state, "undone_fanned_out")
            THEN /\ timeline_events' = timeline_events \ {i}
                 /\ interactions' = SetState(interactions, i, "undone_fanned_out")
                 /\ result' = Outcome("handle_undo_ap", "ok", i)
                 /\ stats' = StatsAfter("ok", interactions', interactions[i].playlist)
                 /\ question' = TypeDataAfter("ok", interactions',
                                              interactions[i].playlist)
            ELSE /\ UNCHANGED <<interactions, timeline_events, stats, question>>
                 /\ result' = Outcome("handle_undo_ap", "InvalidTransition", i)
    /\ UNCHANGED <<config, calls, stator, expiry, fanouts, workers, faults>>

\* the active pins of an identity on a playlist
ActivePins(identity, playlist) ==
    { i \in Matching("pin", identity, playlist) :
        interactions[i].state \in group_active }

\* PlaylistInteraction.handle_add_ap, target being the featured collection
HandleAddAp(actor, playlist) ==
    /\ ~local[actor]
    /\ IF ActivePins(actor, playlist) = {}
       THEN /\ Len(interactions) < MaxInteractions
            /\ interactions' =
                 Append(interactions, NewRow("pin", actor, playlist, NoUri))
            /\ result' = Outcome("handle_add_ap", "created", Len(interactions) + 1)
       ELSE /\ UNCHANGED interactions
            /\ result' = Outcome("handle_add_ap",
                                 IF Cardinality(ActivePins(actor, playlist)) > 1
                                 THEN "MultipleObjectsReturned" ELSE "found", 0)
    /\ UNCHANGED <<config, calls, stator, poll, stats, timeline_events, fanouts, workers, faults>>

\* the loop of handle_remove_ap, inside one transaction: the first
\* InvalidTransition rolls every update of the loop back
RECURSIVE RemoveLoop(_, _, _)
RemoveLoop(before, rows, ids) ==
    IF ids = << >> THEN [rows |-> rows, raised |-> FALSE, id |-> 0]
    ELSE IF CanTransition(rows[Head(ids)].state, "undone_fanned_out")
    THEN LET rest == RemoveLoop(before,
                                SetState(rows, Head(ids), "undone_fanned_out"),
                                Tail(ids))
         IN [rest EXCEPT !.id = IF rest.id = 0 THEN Head(ids) ELSE rest.id]
    ELSE [rows |-> before, raised |-> TRUE, id |-> Head(ids)]

\* PlaylistInteraction.handle_remove_ap, target being the featured collection
HandleRemoveAp(actor, playlist) ==
    /\ ~local[actor]
    /\ LET loop == RemoveLoop(interactions, interactions,
                              SortedSeq(ActivePins(actor, playlist)))
       IN /\ interactions' = loop.rows
          /\ result' = Outcome("handle_remove_ap",
                               IF loop.raised THEN "InvalidTransition"
                               ELSE IF loop.id = 0 THEN "noop" ELSE "ok",
                               loop.id)
    /\ UNCHANGED <<config, calls, stator, poll, stats, timeline_events, fanouts, workers, faults>>

\* ------------------------------------------------------------- votes
\* f"{identity.actor_uri}#votes/{vote.id}": a URI of the voter's own, which
\* no inbound activity carries as its id
VoteUri(id) == MaxActivities + 1 + id

VoteRow(identity, playlist, name, uri) ==
    [NewRow("vote", identity, playlist, uri) EXCEPT !.value = name]

\* the lists of choices create_votes is called with: up to as many entries
\* as the poll has options, indexes repeated or not
ChoiceLists == UNION { [1..n -> ChoiceIndexes] : n \in 0..Len(OptionNames) }

\* set(choices)
ChoiceSet(choices) == { choices[k] : k \in 1..Len(choices) }

\* mutant: the check for an earlier vote is missing
already_voted_never(rows, identity, playlist) == FALSE

\* playlist.interactions.filter(identity=identity, type=vote).exists()
already_voted(rows, identity, playlist) ==
    \E i \in VoteRows(rows, playlist) : rows[i].identity = identity

\* the loop of create_votes over the distinct choices in iteration order
\* ord, from position k: the rows so far and the question object in memory.
\* question.options[choice] raises IndexError for an index out of range.
RECURSIVE VoteLoop(_, _, _, _, _, _)
VoteLoop(identity, playlist, ord, k, rows, data) ==
    IF k > Len(ord) THEN [raised |-> FALSE, rows |-> rows, data |-> data]
    ELSE IF ord[k] >= Len(OptionNames)
    THEN [raised |-> TRUE, rows |-> rows, data |-> data]
    ELSE VoteLoop(identity, playlist, ord, k + 1,
                  Append(rows, VoteRow(identity, playlist, OptionNames[ord[k] + 1],
                                       VoteUri(Len(rows) + 1))),
                  IF playlist_local[playlist] THEN data
                  ELSE [data EXCEPT !.votes[ord[k] + 1] = @ + 1])

\* mutant: the rows are created outside transaction.atomic()
AtomicVotes_none(before, after) == after

\* with transaction.atomic(): an exception inside the block rolls back the
\* rows created in it
AtomicVotes(before, after) == before

\* PlaylistInteraction.create_votes
CreateVotes(identity, playlist, choices) ==
    /\ local[identity]
    /\ Len(interactions) + Cardinality(ChoiceSet(choices)) <= MaxVotes
    /\ question[playlist].voter_count < MaxVotes
    /\ IF ended[playlist]
       THEN /\ UNCHANGED <<interactions, question>>
            /\ result' = Outcome("create_votes", "PollExpired", 0)
       ELSE IF already_voted(interactions, identity, playlist)
       THEN /\ UNCHANGED <<interactions, question>>
            /\ result' = Outcome("create_votes", "DuplicateVote", 0)
       ELSE \E ord \in Orders(ChoiceSet(choices)) :
            LET loop == VoteLoop(identity, playlist, ord, 1, interactions,
                                 question[playlist])
                counted == IF playlist_local[playlist] THEN loop.data
                           ELSE [loop.data EXCEPT !.voter_count = @ + 1]
            IN IF loop.raised
               THEN /\ interactions' = AtomicVotes(interactions, loop.rows)
                    /\ UNCHANGED question
                    /\ result' = Outcome("create_votes", "IndexError", 0)
               ELSE /\ interactions' = loop.rows
                    /\ question' = [question EXCEPT ![playlist] =
                                      calculate_type_data(counted, loop.rows, playlist)]
                    /\ result' = Outcome("create_votes", "created", 0)
    /\ UNCHANGED <<config, calls, stator, expiry, stats, timeline_events, fanouts, workers, faults>>

\* mutant: by_ap does not validate a vote
Inapplicable_never(actor, playlist) == FALSE

\* by_ap's validation of a vote: the poll's end_time has passed, or the
\* poll is oneOf and the identity has a vote on it
Inapplicable(actor, playlist) ==
    \/ ended[playlist]
    \/ /\ mode[playlist] = "oneOf"
       /\ already_voted(interactions, actor, playlist)

\* PlaylistInteraction.handle_ap for a Create of a Note that answers a
\* poll: by_ap raises DoesNotExist for an ended poll and for a second vote
\* on a oneOf poll, and handle_ap returns
HandleApVote(actor, uri, playlist, name) ==
    /\ ~local[actor]
    /\ IF ByUri(uri) # {}
       THEN /\ UNCHANGED interactions
            /\ result' = Outcome("handle_ap", "found", 0)
            /\ stats' = StatsAfter("found", interactions, playlist)
            /\ question' = TypeDataAfter("found", interactions, playlist)
       ELSE IF Inapplicable(actor, playlist)
       THEN /\ UNCHANGED <<interactions, stats, question>>
            /\ result' = Outcome("handle_ap", NotFound, 0)
       ELSE /\ Len(interactions) < MaxVotes
            /\ interactions' =
                 Append(interactions, VoteRow(actor, playlist, name, uri))
            /\ result' = Outcome("handle_ap", "created", 0)
            /\ stats' = StatsAfter("created", interactions', playlist)
            /\ question' = TypeDataAfter("created", interactions', playlist)
    /\ UNCHANGED <<config, calls, stator, expiry, timeline_events, fanouts, workers, faults>>

\* the clock reaches the poll's end_time
PollAtEnd(playlist) ==
    /\ ~ended[playlist]
    /\ ~at_end[playlist]
    /\ at_end' = [at_end EXCEPT ![playlist] = TRUE]
    /\ result' = Outcome("clock", "ok", 0)
    /\ UNCHANGED <<config, calls, stator, question, ended, stats, timeline_events,
                   interactions, fanouts, workers, faults>>

\* the poll's end_time passes
PollEnds(playlist) ==
    /\ ~ended[playlist]
    /\ ended' = [ended EXCEPT ![playlist] = TRUE]
    /\ at_end' = [at_end EXCEPT ![playlist] = FALSE]
    /\ result' = Outcome("clock", "ok", 0)
    /\ UNCHANGED <<config, calls, stator, question, stats, timeline_events, interactions,
                   fanouts, workers, faults>>

\* ------------------------------------------------------------ transport
\* the transport consumes an interaction FanOut addressed to a local
\* identity and writes the timeline event of the interaction
Materialize(id) ==
    /\ id \in InteractionIds \ timeline_events
    /\ \E k \in 1..Len(fanouts) :
         /\ fanouts[k].interaction = id
         /\ fanouts[k].type = "interaction"
         /\ local[fanouts[k].identity]
    /\ timeline_events' = timeline_events \cup {id}
    /\ result' = Outcome("transport", "ok", id)
    /\ UNCHANGED <<config, calls, stator, poll, stats, interactions, fanouts, workers, faults>>

\* ------------------------------------------------------- initial states
\* The follow / block graph is the one get_targets and handle_undone read
\* for identity 1: follows point at it, blocks leave from it.  The other
\* identities are described by a profile and numbered in profile order.
Others == Ids \ {1}

InboxSeq == << None, "", "https://s1/inbox" >>
FollowSeq == << "none", "boosts", "noboosts", "inactive" >>

Profiles ==
    { p \in [loc : BOOLEAN, inbox : 1..Len(InboxSeq), follow : 1..Len(FollowSeq)] :
        p.loc => p.inbox = 1 }

Rank(p) == (IF p.loc THEN 0 ELSE 100) + 10 * p.inbox + p.follow

FollowRows(prof) ==
    { [source |-> i, target |-> 1,
       boosts |-> FollowSeq[prof[i].follow] # "noboosts",
       active |-> FollowSeq[prof[i].follow] # "inactive"] :
        i \in { j \in Others : FollowSeq[prof[j].follow] # "none" } }

BlockRows ==
    { [source |-> 1, target |-> t, mute |-> m, active |-> TRUE] :
        t \in Others, m \in BOOLEAN }

BlockSets == { bs \in SUBSET BlockRows :
                 /\ Cardinality(bs) <= MaxBlocks
                 /\ \A b, c \in bs : b.target = c.target => b = c }

ConfigInit(profiles, blockSets) ==
    \E prof \in [Others -> profiles], l1 \in BOOLEAN, bs \in blockSets :
        /\ \A i, j \in Others : i < j => Rank(prof[i]) <= Rank(prof[j])
        /\ local = [i \in Ids |-> IF i = 1 THEN l1 ELSE prof[i].loc]
        /\ shared_inbox_uri =
             [i \in Ids |-> IF i = 1 THEN None ELSE InboxSeq[prof[i].inbox]]
        /\ follows = FollowRows(prof)
        /\ blocks = bs
        /\ author \in [Playlists -> Ids]
        \* a playlist is local exactly when it was made by create_local
        /\ playlist_local = [p \in Playlists |-> local[author[p]]]

\* the playlist is a poll with no vote yet that has not ended
PollInit(modes) ==
    /\ mode \in [Playlists -> modes]
    /\ question = [p \in Playlists |->
                     [votes |-> [n \in 1..Len(OptionNames) |-> 0],
                      voter_count |-> 0]]
    /\ ended = [p \in Playlists |-> FALSE]
    /\ at_end = [p \in Playlists |-> FALSE]

StoreInit ==
    /\ stats = [p \in Playlists |-> calculate_stats(<< >>, p)]
    /\ timeline_events = {}
    /\ interactions = << >>
    /\ fanouts = << >>
    /\ workers = [w \in Workers |-> Idle]
    /\ faults = 0
    /\ result = Outcome("init", "ok", 0)
    /\ now = 0
    /\ elapses = 0
    /\ purged = {}
    /\ calls = [c \in Calls |-> NoCall]
    /\ playlist_states =
         [p \in Playlists |->
            [state |-> "outdated", state_changed |-> 0,
             state_next_attempt |-> 0]]

\* Lifecycle: local and remote followers with boosts, no blocks
LifecycleProfiles ==
    { p \in Profiles : p.inbox = 1 /\ FollowSeq[p.follow] = "boosts" }

Init == ConfigInit(LifecycleProfiles, {{}}) /\ PollInit({"oneOf"}) /\ StoreInit

\* Lifecycle: every operation, on the interactions of identity 1, with one
\* scheduler worker
Next ==
    \/ \E type \in Types, playlist \in Playlists : InteractAs(1, type, playlist)
    \/ \E type \in Types, playlist \in Playlists : UninteractAs(1, type, playlist)
    \/ \E playlist \in Playlists : Delete(playlist)
    \/ \E wire \in {"Like", "Announce"}, uri \in Activities,
          playlist \in Playlists : HandleAp(1, wire, uri, playlist)
    \/ \E actor \in Ids, uri \in Activities : HandleUndoAp(actor, uri)
    \/ \E playlist \in Playlists : HandleAddAp(1, playlist)
    \/ \E playlist \in Playlists : HandleRemoveAp(1, playlist)
    \/ \E id \in InteractionIds : Begin(1, id)
    \/ Commit(1)
    \/ Raise(1)

Spec == Init /\ [][Next]_vars

\* Scheduler: one interaction of identity 1, every worker, handler failures
NextWorkers ==
    \/ /\ interactions = << >>
       /\ \E type \in Types, playlist \in Playlists : InteractAs(1, type, playlist)
    \/ /\ interactions = << >>
       /\ \E wire \in {"Like", "Announce"}, uri \in Activities,
             playlist \in Playlists : HandleAp(1, wire, uri, playlist)
    \/ \E type \in Types, playlist \in Playlists : UninteractAs(1, type, playlist)
    \/ \E w \in Workers, id \in InteractionIds : Begin(w, id)
    \/ \E w \in Workers : Commit(w)
    \/ \E w \in Workers : Raise(w)
    \/ \E w \in Workers : Fault(w)

SpecWorkers == Init /\ [][NextWorkers]_vars

\* handle_new has run for the interaction: it left state new
FannedOut(id) == interactions[id].state # "new"

\* the FanOut rows of the interaction, per direction
NewRows(id) == RowsOf(id, "interaction")
UndoRows(id) == RowsOf(id, "undo_interaction")

\* the rows one complete run of each handler creates for the interaction
OneRunNew(id) ==
    { handle_new(interactions[id], id, targets).rows :
        targets \in TargetSets(interactions[id]) }

OneRunUndone(id) == handle_undone(interactions[id], id).rows

\* ------------------------------------------------------------------------
\* C1: an interaction has either no undo_interaction FanOut rows or exactly
\* the rows of one handle_undone run, and a call of uninteract_as on an
\* interaction that is already undone (before or after the scheduler ran
\* handle_undone) changes no interaction and no FanOut row.
C1_UndoIdempotent ==
    /\ [](\A id \in InteractionIds :
            UndoRows(id) = << >> \/ UndoRows(id) = OneRunUndone(id))
    /\ [][\A type \in Types, playlist \in Playlists :
            ( /\ UninteractAs(1, type, playlist)
              /\ \E id \in Matching(type, 1, playlist) :
                   interactions[id].state \in {"undone", "undone_fanned_out"} )
            => (interactions' = interactions /\ fanouts' = fanouts)]_vars

\* C1 witness: undo was called again after handle_undone had fanned the
\* first undo out; the rows are those of the one run
C1_Witness ==
    /\ result = [op |-> "uninteract_as", outcome |-> "InvalidTransition"]
    /\ \E id \in InteractionIds :
         /\ interactions[id].state = "undone_fanned_out"
         /\ UndoRows(id) # << >>
         /\ UndoRows(id) = OneRunUndone(id)

C4_OneRowPerRecipient ==
    \A j, k \in 1..Len(fanouts) : j # k => fanouts[j] # fanouts[k]

\* a step in which the scheduler takes the interaction through its gate:
\* the rows of one handler run appear together with the transition
GateStep(id) ==
    \/ /\ interactions[id].state = "new"
       /\ interactions'[id].state = "fanned_out"
       /\ \E rows \in OneRunNew(id) : fanouts' = fanouts \o rows
    \/ /\ interactions[id].state = "undone"
       /\ interactions'[id].state = "undone_fanned_out"
       /\ fanouts' = fanouts \o OneRunUndone(id)

C6_OneWorkerWins ==
    /\ [](\A id \in InteractionIds : FannedOut(id) => NewRows(id) \in OneRunNew(id))
    /\ [][\A w \in Workers :
            ( /\ workers[w].pc = "running"
              /\ ~StillCurrent(w)
              /\ workers'[w].pc = "idle" )
            => (interactions' = interactions /\ fanouts' = fanouts)]_vars

\* C6 witness: the second of two workers found the interaction already
\* fanned out; the rows exist once
C6_Witness ==
    /\ result = [op |-> "handler", outcome |-> "stale"]
    /\ \E id \in InteractionIds :
         /\ interactions[id].state = "fanned_out"
         /\ NewRows(id) # << >>
         /\ NewRows(id) \in OneRunNew(id)

\* C7: an interaction in new has no interaction FanOut row and one that is
\* not yet undone_fanned_out has no undo_interaction row; past the
\* transition the rows of the whole run are there.
C7_AtomicFanOut ==
    \A id \in InteractionIds :
        /\ interactions[id].state = "new" => NewRows(id) = << >>
        /\ interactions[id].state # "new" => NewRows(id) \in OneRunNew(id)
        /\ interactions[id].state # "undone_fanned_out" => UndoRows(id) = << >>
        /\ interactions[id].state = "undone_fanned_out"
             => UndoRows(id) \in {<< >>, OneRunUndone(id)}

\* C7 witness: a run of handle_new that would have created two rows or more
\* failed, and the interaction is in new with no row
C7_Witness ==
    /\ result = [op |-> "handler", outcome |-> "error"]
    /\ \E id \in InteractionIds :
         /\ interactions[id].state = "new"
         /\ NewRows(id) = << >>
         /\ \A rows \in OneRunNew(id) : Len(rows) >= 2

\* ------------------------------------------------------------------------
\* Target resolution: one interaction of identity 1, over every follow and
\* block graph of the bounds
ResolveProfiles ==
    { p \in Profiles :
        \/ p.inbox = 1
        \/ FollowSeq[p.follow] \in {"none", "boosts"} }

InitResolve ==
    ConfigInit(ResolveProfiles, BlockSets) /\ PollInit({"oneOf"}) /\ StoreInit

NextResolve ==
    \/ /\ interactions = << >>
       /\ \E type \in Types, playlist \in Playlists : InteractAs(1, type, playlist)
    \/ /\ interactions = << >>
       /\ \E wire \in {"Like", "Announce"}, uri \in Activities,
             playlist \in Playlists : HandleAp(1, wire, uri, playlist)
    \/ /\ interactions = << >>
       /\ \E playlist \in Playlists : HandleAddAp(1, playlist)
    \/ \E type \in Types, playlist \in Playlists : UninteractAs(1, type, playlist)
    \/ \E id \in InteractionIds : Begin(1, id)
    \/ Commit(1)
    \/ Raise(1)

SpecResolve == InitResolve /\ [][NextResolve]_vars

\* ------------------------------------------------------------------------
\* C2: every boost by a local actor whose fan-out has run has exactly one
\* interaction FanOut row addressed to the actor itself, whatever the graph
\* and whoever authored the playlist.
C2_ActorExactlyOnce ==
    \A id \in InteractionIds :
        ( /\ interactions[id].type = "boost"
          /\ local[interactions[id].identity]
          /\ FannedOut(id) )
        => CountTo(NewRows(id), interactions[id].identity) = 1

\* C8: a like's fan-out is no row or one row, the row going to the playlist
\* author, and it is no row exactly when liker and playlist are both remote.
C8_LikeAuthorOnly ==
    \A id \in InteractionIds :
        (interactions[id].type = "like" /\ FannedOut(id))
        => LET inst == interactions[id] IN
           /\ Len(NewRows(id)) <= 1
           /\ Recipients(NewRows(id)) \subseteq {author[inst.playlist]}
           /\ (Len(NewRows(id)) = 0
                 <=> (~local[inst.identity] /\ ~playlist_local[inst.playlist]))

\* C8 witness: a like of a remote identity on a remote playlist was fanned
\* out and left no row
C8_Witness ==
    \E id \in InteractionIds :
        /\ interactions[id].type = "like"
        /\ interactions[id].state = "fanned_out"
        /\ ~local[interactions[id].identity]
        /\ ~playlist_local[interactions[id].playlist]
        /\ NewRows(id) = << >>

\* the active followers of the actor, and those following with boosts=True
ActiveFollowers(identity) ==
    { f.source : f \in { g \in inbound_follows(identity) : g.active } }

BoostFollowers(identity) ==
    { f.source : f \in { g \in inbound_follows(identity) : g.active /\ g.boosts } }

\* the case C9 speaks of: a fanned-out boost of a local identity, all of
\* whose followers are local, none of them (nor the author) being blocked
LocalBoostCase(id) ==
    LET inst == interactions[id] IN
    /\ inst.type = "boost"
    /\ local[inst.identity]
    /\ FannedOut(id)
    /\ \A f \in inbound_follows(inst.identity) : local[f.source]
    /\ outbound_hard_blocks(inst.identity) = {}

\* C9 as stated: such a boost has exactly k+1 interaction FanOut rows, k
\* being the number of active followers with boosts=True (stated here for
\* the boost of somebody else's playlist).
C9_Original ==
    \A id \in InteractionIds :
        (LocalBoostCase(id)
         /\ author[interactions[id].playlist] # interactions[id].identity)
        => Len(NewRows(id)) = Cardinality(BoostFollowers(interactions[id].identity)) + 1

\* C9 amended: the rows are the k followers, the actor, and the playlist
\* author when the author is not one of the k followers: k+1 rows if the
\* author follows with boosts, k+2 rows otherwise.
C9_BoostRowCount ==
    \A id \in InteractionIds :
        LocalBoostCase(id)
        => LET inst == interactions[id]
               k == Cardinality(BoostFollowers(inst.identity))
           IN Len(NewRows(id)) =
                k + 1 + (IF author[inst.playlist] \in BoostFollowers(inst.identity)
                         THEN 0 ELSE 1)

\* C9 witness: every other identity is a local follower, exactly one of
\* them with boosts=False, the author is one of the others: one row per
\* boosts=True follower and one for the actor
C9_Witness ==
    \E id \in InteractionIds :
        /\ LocalBoostCase(id)
        /\ ActiveFollowers(interactions[id].identity) = Others
        /\ Cardinality(BoostFollowers(interactions[id].identity)) = NumIdentities - 2
        /\ author[interactions[id].playlist] \in BoostFollowers(interactions[id].identity)
        /\ Len(NewRows(id)) = NumIdentities - 1

\* two distinct remote identities that the resolver both returned for a
\* fanned-out boost or pin
BothTargets(id, a, b) ==
    /\ interactions[id].type \in {"boost", "pin"}
    /\ FannedOut(id)
    /\ a # b /\ ~local[a] /\ ~local[b]
    /\ {a, b} \subseteq Recipients(NewRows(id))

\* C10 as stated: two remote identities with the same non-null
\* shared_inbox_uri are never both targets.
C10_Original ==
    \A id \in InteractionIds : \A a, b \in Ids :
        (shared_inbox_uri[a] = shared_inbox_uri[b] /\ shared_inbox_uri[a] # None)
        => ~BothTargets(id, a, b)

\* C10 amended: two remote identities with the same non-empty
\* shared_inbox_uri (neither None nor "") are never both targets.
C10_SharedInboxOnce ==
    \A id \in InteractionIds : \A a, b \in Ids :
        (shared_inbox_uri[a] = shared_inbox_uri[b] /\ ~Falsy(shared_inbox_uri[a]))
        => ~BothTargets(id, a, b)

\* C10 witness: two remote followers share an inbox, one of them being the
\* author, and exactly one of the two got the boost of the local actor
C10_Witness ==
    \E id \in InteractionIds : \E a, b \in Ids :
        /\ interactions[id].type = "boost"
        /\ interactions[id].state = "fanned_out"
        /\ local[interactions[id].identity]
        /\ a # b /\ ~local[a] /\ ~local[b]
        /\ {a, b} \subseteq BoostFollowers(interactions[id].identity)
        /\ author[interactions[id].playlist] = a
        /\ shared_inbox_uri[a] = shared_inbox_uri[b]
        /\ ~Falsy(shared_inbox_uri[a])
        /\ Cardinality({a, b} \cap Recipients(NewRows(id))) = 1

\* ------------------------------------------------------------------------
\* Votes: create_votes by the local identities, inbound votes of the remote
\* ones, on a oneOf or anyOf poll; nobody follows anybody
VoteProfiles == { p \in Profiles : p.inbox = 1 /\ FollowSeq[p.follow] = "none" }

\* the identities that vote
Voters == {1, 2}

InitVotes == ConfigInit(VoteProfiles, {{}}) /\ PollInit(Modes) /\ StoreInit

NextVotes ==
    \/ \E identity \in Voters, playlist \in Playlists, choices \in ChoiceLists :
          CreateVotes(identity, playlist, choices)
    \/ \E actor \in Voters, uri \in Activities, playlist \in Playlists,
          name \in VoteNames : HandleApVote(actor, uri, playlist, name)
    \/ \E playlist \in Playlists : PollEnds(playlist)
    \/ \E id \in InteractionIds : Begin(1, id)
    \/ Commit(1)

SpecVotes == InitVotes /\ [][NextVotes]_vars

\* the identity has a vote row on the playlist, in whatever state
HasVote(identity, playlist) ==
    \E i \in InteractionIds :
        /\ interactions[i].type = "vote"
        /\ interactions[i].identity = identity
        /\ interactions[i].playlist = playlist

ActiveVotes(identity, playlist) ==
    { i \in VoteRows(interactions, playlist) :
        /\ interactions[i].identity = identity
        /\ interactions[i].state \in group_active }

\* C12: on a single-choice (oneOf) poll every identity has at most one
\* active vote interaction on the playlist.
C12_OneActiveVote ==
    \A playlist \in Playlists, identity \in Ids :
        mode[playlist] = "oneOf"
        => Cardinality(ActiveVotes(identity, playlist)) <= 1

\* the stored tallies after one more voter chose the options of chosen on a
\* remote poll
Tallied(data, chosen) ==
    [votes |-> [n \in 1..Len(OptionNames) |->
                  data.votes[n] + (IF (n - 1) \in chosen THEN 1 ELSE 0)],
     voter_count |-> data.voter_count + 1]

\* C13: a create_votes call that fails (poll ended, duplicate vote, index out
\* of range, whether met first or after rows were created) leaves the
\* interactions and the stored tallies as before the call; a call that
\* succeeds adds one vote row per distinct choice, each in new with the voter,
\* the option's name and its own URI, together with the updated tallies.
C13_VotesAllOrNothing ==
    [][\A identity \in Voters, playlist \in Playlists, choices \in ChoiceLists :
         CreateVotes(identity, playlist, choices)
         => IF result'.outcome \in Errors
            THEN interactions' = interactions /\ question' = question
            ELSE /\ Len(interactions') =
                      Len(interactions) + Cardinality(ChoiceSet(choices))
                 /\ SubSeq(interactions', 1, Len(interactions)) = interactions
                 /\ { interactions'[i].value :
                        i \in (Len(interactions) + 1)..Len(interactions') }
                      = { OptionNames[c + 1] : c \in ChoiceSet(choices) }
                 /\ \A i \in (Len(interactions) + 1)..Len(interactions') :
                      /\ interactions'[i].type = "vote"
                      /\ interactions'[i].identity = identity
                      /\ interactions'[i].state = "new"
                      /\ interactions'[i].object_uri = VoteUri(i)
                 /\ question'[playlist] =
                      IF playlist_local[playlist]
                      THEN calculate_type_data(question[playlist], interactions',
                                               playlist)
                      ELSE Tallied(question[playlist], ChoiceSet(choices))]_vars

\* C13 witness: a call on an open remote poll ended with IndexError and
\* neither a row nor a tally is left of it
C13_Witness ==
    /\ result = [op |-> "create_votes", outcome |-> "IndexError"]
    /\ interactions = << >>
    /\ \E playlist \in Playlists :
         /\ ~playlist_local[playlist]
         /\ ~ended[playlist]
         /\ question[playlist].voter_count = 0
         /\ \A n \in 1..Len(OptionNames) : question[playlist].votes[n] = 0

\* C14: the fan-out of a vote is one interaction FanOut row addressed to the
\* playlist author when the voter is local and the playlist remote, and no
\* row in every other case; the run of handle_new on a vote moves it to
\* fanned_out.
C14_VoteToRemoteAuthor ==
    /\ [](\A id \in InteractionIds :
            (interactions[id].type = "vote" /\ FannedOut(id))
            => LET inst == interactions[id] IN
               NewRows(id) =
                 IF local[inst.identity] /\ ~playlist_local[inst.playlist]
                 THEN << FanOutRow("interaction", author[inst.playlist], id) >>
                 ELSE << >>)
    /\ [][\A id \in InteractionIds :
            ( /\ interactions[id].type = "vote"
              /\ interactions[id].state = "new"
              /\ workers[1].pc = "running" /\ workers[1].id = id
              /\ workers'[1].pc = "idle" )
            => interactions'[id].state = "fanned_out"]_vars

\* C14 witness: a local vote on a remote poll was fanned out to the author,
\* and the vote of a remote voter on the same poll was fanned out to nobody
C14_Witness ==
    \E id, other \in InteractionIds :
        /\ interactions[id].type = "vote" /\ interactions[other].type = "vote"
        /\ interactions[id].state = "fanned_out"
        /\ interactions[other].state = "fanned_out"
        /\ local[interactions[id].identity]
        /\ ~local[interactions[other].identity]
        /\ ~playlist_local[interactions[id].playlist]
        /\ NewRows(id) =
             << FanOutRow("interaction", author[interactions[id].playlist], id) >>
        /\ NewRows(other) = << >>

\* ------------------------------------------------------------------------
\* a step in which the scheduler's worker finishes a run of handle_undone
\* for the interaction
UndoneRunEnds(id) ==
    /\ workers[1].pc = "running"
    /\ workers[1].id = id
    /\ workers[1].observed = "undone"
    /\ interactions[id].state = "undone"
    /\ workers'[1].pc = "idle"

\* C15: a run of handle_undone on a like or on a vote does not raise: it
\* creates one undo_interaction FanOut row, addressed to the playlist author,
\* and moves the interaction to undone_fanned_out.
C15_AuthorOnlyUndo ==
    [][\A id \in InteractionIds :
         (interactions[id].type \in {"like", "vote"} /\ UndoneRunEnds(id))
         => /\ result'.outcome # "ValueError"
            /\ interactions'[id].state = "undone_fanned_out"
            /\ fanouts' = fanouts \o
                 << FanOutRow("undo_interaction",
                              author[interactions[id].playlist], id) >>]_vars

\* the number of inbound follows of the actor whose source is x and of
\* which at least one side is local
LocalSideFollows(actor, x) ==
    Cardinality({ f \in follows :
                    /\ f.target = actor /\ f.source = x
                    /\ (local[f.source] \/ local[f.target]) })

C17_Original ==
    \A id \in InteractionIds :
        interactions[id].state = "undone_fanned_out"
        => Recipients(UndoRows(id)) = Recipients(NewRows(id))

\* C17 amended: for a like of a local identity or on a local playlist the two
\* sets are equal (the author); for a boost or a pin every identity that got
\* the interaction FanOut, the playlist author excepted, gets the
\* undo_interaction FanOut (the undo may also go to followers the forward
\* fan-out left out).
C17_UndoCoversForward ==
    \A id \in InteractionIds :
        interactions[id].state = "undone_fanned_out"
        => LET inst == interactions[id] IN
           /\ (inst.type = "like"
                 /\ (local[inst.identity] \/ playlist_local[inst.playlist]))
                => Recipients(UndoRows(id)) = Recipients(NewRows(id))
           /\ inst.type \in {"boost", "pin"}
                => (Recipients(NewRows(id)) \ {author[inst.playlist]})
                     \subseteq Recipients(UndoRows(id))

\* C17 witness: an undone boost whose forward fan-out went to the author
\* and to a remote follower: the follower got the undo, the author did not
C17_Witness ==
    \E id \in InteractionIds : \E x \in Ids :
        /\ interactions[id].type = "boost"
        /\ interactions[id].state = "undone_fanned_out"
        /\ ~local[x]
        /\ x # author[interactions[id].playlist]
        /\ {x, author[interactions[id].playlist]} \subseteq Recipients(NewRows(id))
        /\ x \in Recipients(UndoRows(id))
        /\ author[interactions[id].playlist] \notin Recipients(UndoRows(id))

\* ------------------------------------------------------------------------
\* Lifecycle under a fair scheduler: an interaction that is due in new or in
\* undone is picked up again and again (try_interval), and a run that has
\* started ends, by returning or by raising
Fairness ==
    /\ \A id \in 1..MaxInteractions : SF_vars(Begin(1, id))
    /\ WF_vars(Commit(1))
    /\ WF_vars(Raise(1))

SpecFair == Init /\ [][Next]_vars /\ Fairness

\* C18: every interaction in new eventually reaches fanned_out, and every
\* interaction in undone eventually reaches undone_fanned_out.
C18_LifecycleProgress ==
    \A id \in 1..MaxInteractions :
        /\ (id \in InteractionIds /\ interactions[id].state = "new")
             ~> (id \in InteractionIds /\ interactions[id].state = "fanned_out")
        /\ (id \in InteractionIds /\ interactions[id].state = "undone")
             ~> (id \in InteractionIds
                 /\ interactions[id].state = "undone_fanned_out")

\* the part of C18 that the code does meet: progress out of new for every
\* type, and out of undone for every type but vote
C18_ProgressButVoteUndo ==
    \A id \in 1..MaxInteractions :
        /\ (id \in InteractionIds /\ interactions[id].state = "new")
             ~> (id \in InteractionIds /\ interactions[id].state = "fanned_out")
        /\ (id \in InteractionIds /\ interactions[id].state = "undone"
            /\ interactions[id].type # "vote")
             ~> (id \in InteractionIds
                 /\ interactions[id].state = "undone_fanned_out")

\* ------------------------------------------------------------------------
\* Inbound: the activities of the remote identity 1 (Like, Announce, a vote,
\* and the Undo of any of them, sent by any remote actor), the scheduler and
\* the transport
InitInbound == Init /\ ~local[1]

NextInbound ==
    \/ \E wire \in {"Like", "Announce"}, uri \in Activities,
          playlist \in Playlists : HandleAp(1, wire, uri, playlist)
    \/ \E wire \in {"Like", "Announce"}, uri \in InboundUris :
          HandleAp(1, wire, uri, Unresolvable)
    \/ \E uri \in Activities, playlist \in Playlists, name \in VoteNames :
          HandleApVote(1, uri, playlist, name)
    \/ \E actor \in Ids, uri \in InboundUris : HandleUndoAp(actor, uri)
    \/ \E id \in InteractionIds : Begin(1, id)
    \/ Commit(1)
    \/ \E id \in InteractionIds : Materialize(id)

SpecInbound == InitInbound /\ [][NextInbound]_vars

\* the interaction an Undo for uri is about
Stored(uri) == CHOOSE i \in ByUri(uri) : TRUE

\* C19: an Undo whose actor is not the actor of the stored interaction ends
\* with the actor-mismatch error (a ValueError) and changes neither an
\* interaction, nor a timeline event, nor the stored statistics and poll data,
\* nor a FanOut row.
C19_WrongActorRejected ==
    [][\A actor \in Ids, uri \in InboundUris :
         ( /\ HandleUndoAp(actor, uri)
           /\ ByUri(uri) # {}
           /\ actor # interactions[Stored(uri)].identity )
         => /\ result' = [op |-> "handle_undo_ap", outcome |-> "ValueError"]
            /\ interactions' = interactions
            /\ timeline_events' = timeline_events
            /\ stats' = stats
            /\ question' = question
            /\ fanouts' = fanouts]_vars

\* C19 witness: the Undo of another actor was refused; the like is still
\* fanned out, counted in the statistics and on a timeline
C19_Witness ==
    /\ result = [op |-> "handle_undo_ap", outcome |-> "ValueError"]
    /\ \E id \in InteractionIds :
         /\ interactions[id].type = "like"
         /\ interactions[id].state = "fanned_out"
         /\ id \in timeline_events
         /\ stats[interactions[id].playlist]["like"] = 1

\* C20: an Undo sent by the actor of the stored interaction puts the
\* interaction into undone_fanned_out, whatever state it was in, and creates
\* no FanOut row; no undo_interaction FanOut row is ever created for an
\* interaction that came in as an activity.
C20_InboundUndoTerminal ==
    /\ [][\A actor \in Ids, uri \in InboundUris :
            ( /\ HandleUndoAp(actor, uri)
              /\ ByUri(uri) # {}
              /\ actor = interactions[Stored(uri)].identity )
            => /\ interactions'[Stored(uri)].state = "undone_fanned_out"
               /\ fanouts' = fanouts]_vars
    /\ [](\A id \in InteractionIds :
            interactions[id].object_uri \in Activities => UndoRows(id) = << >>)

\* C21: handle_ap for a Like or an Announce whose playlist cannot be
\* resolved, and handle_undo_ap for an interaction id that is not stored,
\* return without raising and change no interaction, no FanOut row and
\* nothing of a playlist (statistics, poll data, timeline events).
C21_AbsentIsNoOp ==
    [][( \/ \E wire \in {"Like", "Announce"}, uri \in InboundUris :
              /\ HandleAp(1, wire, uri, Unresolvable)
              /\ ByUri(uri) = {}
         \/ \E actor \in Ids, uri \in InboundUris :
              /\ HandleUndoAp(actor, uri)
              /\ ByUri(uri) = {} )
       => /\ result'.outcome \notin Errors
          /\ interactions' = interactions
          /\ fanouts' = fanouts
          /\ stats' = stats
          /\ question' = question
          /\ timeline_events' = timeline_events]_vars

\* C21 witness: an activity about something absent was dropped while a
\* stored interaction is fanned out and on a timeline
C21_Witness ==
    /\ result.outcome = NotFound
    /\ \E id \in InteractionIds :
         /\ interactions[id].state = "fanned_out"
         /\ id \in timeline_events
         /\ stats[interactions[id].playlist][interactions[id].type] = 1

\* ------------------------------------------------------------------------
\* Inbound votes: the votes that come in as activities, with one id more
\* than can be stored, and the end of the poll
NextInboundVotes ==
    \/ \E actor \in Voters, uri \in InboundUris, playlist \in Playlists,
          name \in VoteNames : HandleApVote(actor, uri, playlist, name)
    \/ \E playlist \in Playlists : PollEnds(playlist)

SpecInboundVotes == InitVotes /\ [][NextInboundVotes]_vars

\* C22: handle_ap for a vote whose id is not stored, on a poll that has
\* ended or on a oneOf poll the actor has a vote on, creates no row and
\* returns as for something absent, without an error; on an anyOf poll that
\* has not ended, a vote of an actor that has a vote already is stored as a
\* further row of that actor.
C22_InboundVoteValidated ==
    [][\A actor \in Voters, uri \in InboundUris, playlist \in Playlists,
          name \in VoteNames :
         ( HandleApVote(actor, uri, playlist, name) /\ ByUri(uri) = {} )
         => /\ ( \/ ended[playlist]
                 \/ mode[playlist] = "oneOf" /\ HasVote(actor, playlist) )
               => /\ interactions' = interactions
                  /\ question' = question
                  /\ result' = [op |-> "handle_ap", outcome |-> "absent"]
            /\ ( /\ ~ended[playlist]
                 /\ mode[playlist] = "anyOf"
                 /\ HasVote(actor, playlist) )
               => /\ Len(interactions') = Len(interactions) + 1
                  /\ interactions'[Len(interactions')] =
                       VoteRow(actor, playlist, name, uri)]_vars

\* C22 witness: a remote identity has two votes that came in as activities
\* on an anyOf poll
C22_Witness ==
    \E i, j \in InteractionIds :
        /\ i # j
        /\ interactions[i].type = "vote" /\ interactions[j].type = "vote"
        /\ interactions[i].identity = interactions[j].identity
        /\ ~local[interactions[i].identity]
        /\ interactions[i].playlist = interactions[j].playlist
        /\ mode[interactions[i].playlist] = "anyOf"
        /\ {interactions[i].object_uri, interactions[j].object_uri}
             \subseteq InboundUris

\* C23: for a boost or a pin and the stored follows, blocks and identities,
\* get_targets returns one and the same set of identities whatever the order
\* in which the loop over the candidates visits them.
C23_Deterministic ==
    \A id \in InteractionIds :
        interactions[id].type \in {"boost", "pin"}
        => Cardinality(TargetSets(interactions[id])) = 1

\* the identities the actor has an active block against, with mute=False
\* and with mute=True
HardBlocked(identity) ==
    { b.target : b \in { c \in blocks :
                           c.source = identity /\ c.active /\ ~c.mute } }

Muted(identity) ==
    { b.target : b \in { c \in blocks :
                           c.source = identity /\ c.active /\ c.mute } }

\* the candidates of get_targets before blocks are applied: the playlist
\* author and the active followers (for a boost those with boosts=True)
Seeded(inst) ==
    {author[inst.playlist]} \cup
    (IF inst.type = "boost" THEN BoostFollowers(inst.identity)
     ELSE ActiveFollowers(inst.identity))

\* a recipient stands for the identity: it is the identity, or a remote
\* identity with the same non-empty shared inbox
StandsFor(r, t) ==
    \/ r = t
    \/ /\ ~local[r] /\ ~local[t]
       /\ ~Falsy(shared_inbox_uri[t])
       /\ shared_inbox_uri[r] = shared_inbox_uri[t]

\* C29: no interaction FanOut row of a fanned-out boost or pin is addressed
\* to an identity the actor has an active block with mute=False against,
\* the playlist author included; a candidate the actor has only muted is
\* still delivered to when it is local or the actor is local (itself, or
\* through the row of its shared inbox).
C29_BlockFiltering ==
    \A id \in InteractionIds :
        (interactions[id].type \in {"boost", "pin"} /\ FannedOut(id))
        => LET inst == interactions[id] IN
           /\ Recipients(NewRows(id)) \cap HardBlocked(inst.identity) = {}
           /\ \A t \in (Seeded(inst) \cap Muted(inst.identity))
                      \ HardBlocked(inst.identity) :
                 (local[t] \/ local[inst.identity])
                 => \E r \in Recipients(NewRows(id)) : StandsFor(r, t)

\* C29 witness: the actor blocks the playlist author, who follows the actor
\* with boosts; the boost went to the actor and not to the author
C29_Witness ==
    \E id \in InteractionIds :
        /\ interactions[id].type = "boost"
        /\ interactions[id].state = "fanned_out"
        /\ author[interactions[id].playlist]
             \in HardBlocked(interactions[id].identity)
                 \cap BoostFollowers(interactions[id].identity)
        /\ Recipients(NewRows(id)) = {interactions[id].identity}

\* C30: every local candidate of a fanned-out boost or pin that the actor
\* has no block with mute=False against has an interaction FanOut row,
\* whatever the actor's locality and the shared inboxes; the rows of a
\* remote actor's boost or pin are addressed to local identities only.
C30_LocalityRule ==
    \A id \in InteractionIds :
        (interactions[id].type \in {"boost", "pin"} /\ FannedOut(id))
        => LET inst == interactions[id] IN
           /\ { t \in Seeded(inst) \ HardBlocked(inst.identity) : local[t] }
                \subseteq Recipients(NewRows(id))
           /\ ~local[inst.identity]
                => \A r \in Recipients(NewRows(id)) : local[r]

\* C30 witness: a remote actor's boost with a local and a remote candidate
\* went to the local one only
C30_Witness ==
    \E id \in InteractionIds :
        LET inst == interactions[id] IN
        /\ inst.type = "boost"
        /\ inst.state = "fanned_out"
        /\ ~local[inst.identity]
        /\ \E t \in Seeded(inst) \ HardBlocked(inst.identity) : ~local[t]
        /\ \E t \in Seeded(inst) \ HardBlocked(inst.identity) : local[t]
        /\ Recipients(NewRows(id)) =
             { t \in Seeded(inst) \ HardBlocked(inst.identity) : local[t] }

\* ------------------------------------------------------------------------
\* Outbound documents. A document is a record whose fields are the keys of
\* the JSON object. The values of the audience keys are tagged, because a
\* string and a list are both found there.
Str(s) == [str |-> s]
List(q) == [list |-> q]

\* Python's "not value" for an audience value
EmptyValue(v) == "list" \in DOMAIN v /\ v.list = << >>

\* object.get(key, [])
Get(doc, key) == IF key \in DOMAIN doc THEN doc[key] ELSE List(<< >>)

ActorUri(identity) == <<"actor", identity>>
PlaylistUri(playlist) == <<"playlist", playlist>>

\* self.object_uri, created by to_ap if there is none
ObjectUri(inst, id) ==
    IF inst.object_uri = NoUri THEN <<ActorUri(inst.identity), inst.type, id>>
    ELSE <<"activity", inst.object_uri>>

\* PlaylistInteraction.to_ap for a boost, a like or a vote (it raises
\* ValueError for a pin)
to_ap(inst, id) ==
    CASE inst.type = "boost" ->
           [type |-> "Announce", id |-> ObjectUri(inst, id),
            published |-> "published", actor |-> ActorUri(inst.identity),
            object |-> PlaylistUri(inst.playlist), to |-> Str("as:Public")]
      [] inst.type = "like" ->
           [type |-> "Like", id |-> ObjectUri(inst, id),
            published |-> "published", actor |-> ActorUri(inst.identity),
            object |-> PlaylistUri(inst.playlist)]
      [] inst.type = "vote" ->
           [type |-> "Note", id |-> ObjectUri(inst, id),
            to |-> Str(ActorUri(author[inst.playlist])), name |-> inst.value,
            inReplyTo |-> PlaylistUri(inst.playlist),
            attributedTo |-> ActorUri(inst.identity)]

\* PlaylistInteraction.to_create_ap
to_create_ap(inst, id) ==
    LET object == to_ap(inst, id) IN
    [to |-> Get(object, "to"), cc |-> Get(object, "cc"), type |-> "Create",
     id |-> ObjectUri(inst, id), actor |-> ActorUri(inst.identity),
     object |-> object]

\* PlaylistInteraction.to_undo_ap
to_undo_ap(inst, id) ==
    LET object == to_ap(inst, id) IN
    [id |-> <<object.id, "/undo">>, type |-> "Undo",
     actor |-> ActorUri(inst.identity), object |-> object]

\* PlaylistInteraction.to_add_ap and to_remove_ap
to_add_ap(inst) ==
    [type |-> "Add", actor |-> ActorUri(inst.identity),
     object |-> PlaylistUri(inst.playlist),
     target |-> <<ActorUri(inst.identity), "collections/featured/">>]

to_remove_ap(inst) ==
    [type |-> "Remove", actor |-> ActorUri(inst.identity),
     object |-> PlaylistUri(inst.playlist),
     target |-> <<ActorUri(inst.identity), "collections/featured/">>]

Visibilities == {"public", "local_only", "unlisted", "followers", "mentioned"}

\* the keys of a document, without those of the set
Without(doc, keys) == [k \in DOMAIN doc \ keys |-> doc[k]]

\* Playlist.to_ap: the audience by visibility and mentions, and the empty
\* to, cc, tag and attachment removed
playlist_to_ap(playlist, visibility, has_followers_uri, mentions) ==
    LET to == CASE visibility = "public" -> <<"as:Public">>
                [] visibility = "followers" /\ has_followers_uri ->
                     <<<<ActorUri(author[playlist]), "followers/">>>>
                [] OTHER -> << >>
        cc == (IF visibility = "unlisted" THEN <<"as:Public">> ELSE << >>)
              \o [k \in 1..Len(mentions) |-> ActorUri(mentions[k])]
        tag == [k \in 1..Len(mentions) |-> <<"Mention", mentions[k]>>]
        value == [to |-> List(to), cc |-> List(cc), type |-> "Playlist",
                  id |-> PlaylistUri(playlist),
                  attributedTo |-> ActorUri(author[playlist]),
                  tag |-> List(tag), attachment |-> List(<< >>)]
    IN Without(value, { field \in {"to", "cc", "tag", "attachment"} :
                          EmptyValue(value[field]) })

\* Playlist.to_create_ap
playlist_to_create_ap(playlist, visibility, has_followers_uri, mentions) ==
    LET object == playlist_to_ap(playlist, visibility, has_followers_uri,
                                 mentions) IN
    [to |-> Get(object, "to"), cc |-> Get(object, "cc"), type |-> "Create",
     id |-> <<PlaylistUri(playlist), "#create">>,
     actor |-> ActorUri(author[playlist]), object |-> object]

\* what the caller of a builder gets: the document
Built(op, doc) == [op |-> op, outcome |-> "ok", doc |-> doc]

\* a builder of an interaction is called; the ones that go through to_ap
\* raise ValueError for a pin
Build(op, id) ==
    /\ id \in InteractionIds
    /\ LET inst == interactions[id] IN
       result' =
         CASE op = "to_add_ap" -> Built(op, to_add_ap(inst))
           [] op = "to_remove_ap" -> Built(op, to_remove_ap(inst))
           [] op \in {"to_ap", "to_create_ap", "to_undo_ap"}
              /\ inst.type = "pin" -> Outcome(op, "ValueError", id)
           [] op = "to_ap" /\ inst.type # "pin" -> Built(op, to_ap(inst, id))
           [] op = "to_create_ap" /\ inst.type # "pin" ->
                Built(op, to_create_ap(inst, id))
           [] op = "to_undo_ap" /\ inst.type # "pin" ->
                Built(op, to_undo_ap(inst, id))
    /\ UNCHANGED <<config, calls, stator, poll, stats, timeline_events, interactions, fanouts,
                   workers, faults>>

\* a builder of a playlist is called
BuildPlaylist(op, playlist, visibility, has_followers_uri, mentions) ==
    /\ result' =
         IF op = "to_ap"
         THEN Built("playlist_to_ap",
                    playlist_to_ap(playlist, visibility, has_followers_uri,
                                   mentions))
         ELSE Built("playlist_to_create_ap",
                    playlist_to_create_ap(playlist, visibility,
                                          has_followers_uri, mentions))
    /\ UNCHANGED <<config, calls, stator, poll, stats, timeline_events, interactions, fanouts,
                   workers, faults>>

\* the lists of mentioned identities of a playlist: nobody, or identity 2
MentionLists == {<< >>, <<2>>}

InitDocuments == Init /\ local[1]

NextDocuments ==
    \/ /\ interactions = << >>
       /\ \E type \in Types, playlist \in Playlists :
             InteractAs(1, type, playlist)
    \/ \E id \in InteractionIds,
          op \in {"to_ap", "to_create_ap", "to_undo_ap", "to_add_ap",
                  "to_remove_ap"} : Build(op, id)
    \/ \E op \in {"to_ap", "to_create_ap"}, playlist \in Playlists,
          visibility \in Visibilities, has_followers_uri \in BOOLEAN,
          mentions \in MentionLists :
          BuildPlaylist(op, playlist, visibility, has_followers_uri, mentions)

SpecDocuments == InitDocuments /\ [][NextDocuments]_vars

\* C28: a document a builder returned has no to key or a non-empty to, and
\* no cc key or a non-empty cc.
C28_NoEmptyAudience ==
    "doc" \in DOMAIN result
    => \A key \in {"to", "cc"} :
         key \in DOMAIN result.doc => ~EmptyValue(result.doc[key])

\* ------------------------------------------------------------------------
\* The clock: the scheduler's passes and the sweep, with time
\* the steps of the clock: just short of an interval, and the interval
Deltas == {try_interval - 1, try_interval, delete_after - 1, delete_after}

\* time passes
Elapse(d) ==
    /\ elapses < MaxElapses
    /\ now' = now + d
    /\ elapses' = elapses + 1
    /\ result' = Outcome("clock", "ok", 0)
    /\ UNCHANGED <<config, calls, poll, stats, timeline_events, interactions, fanouts,
                   workers, faults, purged, playlist_states>>

\* the scheduler's query: rows whose next attempt is not in the future
Due(id) == interactions[id].state_next_attempt <= now

\* a scheduler pass picks up a row that is due
BeginDue(w, id) ==
    /\ id \in InteractionIds
    /\ Due(id)
    /\ Begin(w, id)

\* the sweep's query: rows in a state with delete_after whose state_changed
\* is at least that old
Expired(id) ==
    /\ interactions[id].state \in DeleteStates
    /\ now - interactions[id].state_changed >= delete_after

\* the sweep deletes an expired row, and with it what refers to it
Purge(id) ==
    /\ id \in InteractionIds
    /\ Expired(id)
    /\ purged' = purged \cup {id}
    /\ timeline_events' = timeline_events \ {id}
    /\ result' = Outcome("purge", "ok", id)
    /\ UNCHANGED <<config, calls, poll, stats, interactions, fanouts, workers, faults,
                   now, elapses, playlist_states>>

\* the local identity 1 likes and votes on the playlist of the local
\* identity 2, everybody being local
InitTimed == Init /\ (\A i \in Ids : local[i]) /\ author[1] = 2

\* a type whose undo is fanned out, and the one whose undo raises
TimedTypes == {"like", "vote"}

NextTimed ==
    \/ \E type \in TimedTypes, playlist \in Playlists :
          InteractAs(1, type, playlist)
    \/ \E type \in TimedTypes, playlist \in Playlists :
          UninteractAs(1, type, playlist)
    \/ \E id \in InteractionIds : BeginDue(1, id)
    \/ Commit(1)
    \/ Raise(1)
    \/ \E d \in Deltas : Elapse(d)
    \/ \E id \in InteractionIds : Purge(id)

SpecTimed == InitTimed /\ [][NextTimed]_vars

\* C24: a handler run that ends with an exception (the ValueError of
\* handle_undone for a vote) leaves the FanOut rows and the state of every
\* interaction as they were and puts the row's next attempt one try
\* interval (300 s) after the failed one; a row still in its state is not
\* picked up before its next attempt is due, and its next attempt is never
\* moved to an earlier time.
C24_RaiseChangesNothing ==
    /\ [][Raise(1)
            => /\ fanouts' = fanouts
               /\ \A id \in InteractionIds :
                    interactions'[id].state = interactions[id].state
               /\ interactions'[workers[1].id].state_next_attempt = now + 300]_vars
    /\ [][\A id \in InteractionIds :
            /\ BeginDue(1, id) => now >= interactions[id].state_next_attempt
            /\ interactions'[id].state = interactions[id].state
                 => interactions'[id].state_next_attempt
                      >= interactions[id].state_next_attempt]_vars

\* C24 witness: the undo of a vote raised, less than 300 s have passed and
\* the worker is idle: the row is in undone, with no undo row, not due
C24_Witness ==
    /\ workers[1].pc = "idle"
    /\ \E id \in InteractionIds :
         /\ interactions[id].type = "vote"
         /\ interactions[id].state = "undone"
         /\ UndoRows(id) = << >>
         /\ interactions[id].state_next_attempt = interactions[id].state_changed + 300
         /\ now = interactions[id].state_changed + 299

\* C27: the sweep deletes an interaction only in undone_fanned_out and only
\* when 24 hours or more have passed since the transition into that state;
\* an interaction in new, fanned_out or undone is not deleted.
C27_PurgeOnlyTerminal ==
    [][\A id \in 1..Len(interactions) :
         (id \in purged' /\ id \notin purged)
         => /\ interactions[id].state = "undone_fanned_out"
            /\ now - interactions[id].state_changed >= 24 * 60 * 60]_vars

\* C27 witness: an interaction whose undo was fanned out one second before
\* the clock showed 24 hours was deleted 24 hours after that
C27_Witness ==
    \E id \in purged :
        /\ interactions[id].state = "undone_fanned_out"
        /\ UndoRows(id) # << >>
        /\ interactions[id].state_changed = delete_after - 1
        /\ now >= interactions[id].state_changed + delete_after

\* ------------------------------------------------------------------------
\* The lifecycle of a playlist
\* PlaylistStates: outdated.transitions_to(updated) and back
PlaylistTransitions == { <<"outdated", "updated">>, <<"updated", "outdated">> }

\* mutant: updated is progressed by the scheduler as well
PlaylistAutoStates_updated == {"outdated", "updated"}

\* outdated carries try_interval=300; updated is externally progressed
PlaylistAutoStates == {"outdated"}

\* PlaylistStates.handle_outdated: whatever it counted, it returns updated
handle_outdated(playlist) == "updated"

\* the atomic update of a playlist's transition
SetPlaylistState(playlist, state) ==
    [playlist_states EXCEPT ![playlist] =
       [state |-> state, state_changed |-> now, state_next_attempt |-> now]]

\* a scheduler pass finds the playlist due in a state with a handler, runs
\* the handler and commits what it returned
RunOutdated(playlist) ==
    /\ playlist_states[playlist].state \in PlaylistAutoStates
    /\ playlist_states[playlist].state_next_attempt <= now
    /\ LET from == playlist_states[playlist].state
           next == handle_outdated(playlist)
       IN IF next = Stay
          THEN /\ playlist_states' =
                    [playlist_states EXCEPT
                       ![playlist].state_next_attempt = now + try_interval]
               /\ result' = Outcome("handle_outdated", "ok", 0)
          ELSE IF <<from, next>> \in PlaylistTransitions
          THEN /\ playlist_states' = SetPlaylistState(playlist, next)
               /\ result' = Outcome("handle_outdated", "ok", 0)
          ELSE /\ playlist_states' =
                    [playlist_states EXCEPT
                       ![playlist].state_next_attempt = now + try_interval]
               /\ result' = Outcome("handle_outdated", "InvalidTransition", 0)
    /\ UNCHANGED <<config, calls, poll, stats, timeline_events, interactions, fanouts,
                   workers, faults, now, elapses, purged>>

\* the pass finds the playlist due and the handler raises (a query fails)
FailOutdated(playlist) ==
    /\ playlist_states[playlist].state \in PlaylistAutoStates
    /\ playlist_states[playlist].state_next_attempt <= now
    /\ playlist_states' =
         [playlist_states EXCEPT
            ![playlist].state_next_attempt = now + try_interval]
    /\ result' = Outcome("handle_outdated", "error", 0)
    /\ UNCHANGED <<config, calls, poll, stats, timeline_events, interactions, fanouts,
                   workers, faults, now, elapses, purged>>

\* playlist.transition_perform(state), from outside the scheduler
TransitionPerform(playlist, state) ==
    /\ IF <<playlist_states[playlist].state, state>> \in PlaylistTransitions
       THEN /\ playlist_states' = SetPlaylistState(playlist, state)
            /\ result' = Outcome("transition_perform", "ok", 0)
       ELSE /\ UNCHANGED playlist_states
            /\ result' = Outcome("transition_perform", "InvalidTransition", 0)
    /\ UNCHANGED <<config, calls, poll, stats, timeline_events, interactions, fanouts,
                   workers, faults, now, elapses, purged>>

NextPlaylist ==
    \/ \E playlist \in Playlists : RunOutdated(playlist)
    \/ \E playlist \in Playlists : FailOutdated(playlist)
    \/ \E playlist \in Playlists, state \in {"outdated", "updated"} :
          TransitionPerform(playlist, state)
    \/ \E d \in Deltas : Elapse(d)

SpecPlaylist == Init /\ [][NextPlaylist]_vars

\* C25: a run of handle_outdated that does not raise moves the playlist
\* from outdated to updated; the handler is invoked only for a playlist in
\* outdated, so that no pass invokes it for a playlist that is in updated,
\* within 300 s of the run or later; a playlist leaves updated only by
\* transition_perform(outdated).
C25_PlaylistLifecycle ==
    [][\A playlist \in Playlists :
         /\ RunOutdated(playlist)
              => /\ playlist_states[playlist].state = "outdated"
                 /\ playlist_states'[playlist].state = "updated"
                 /\ result'.outcome \notin Errors
         /\ FailOutdated(playlist)
              => playlist_states[playlist].state = "outdated"
         /\ ( /\ playlist_states[playlist].state = "updated"
              /\ playlist_states'[playlist].state # "updated" )
              => TransitionPerform(playlist, "outdated")]_vars

\* C25 witness: 299 s after the run that moved it there the playlist is in
\* updated
C25_Witness ==
    \E playlist \in Playlists :
        /\ playlist_states[playlist].state = "updated"
        /\ playlist_states[playlist].state_changed = try_interval
        /\ now = playlist_states[playlist].state_changed + 299
        /\ result = [op |-> "any", outcome |-> "ok"]

\* ------------------------------------------------------------------------
\* The poll summary
\* the loop of to_mastodon_json over the options, from option n: the
\* summary's options and the running votes_count
RECURSIVE OptionLoop(_, _, _)
OptionLoop(data, n, value) ==
    IF n > Len(OptionNames) THEN value
    ELSE OptionLoop(data, n + 1,
                    [options |-> Append(value.options,
                                        [title |-> OptionNames[n],
                                         votes_count |-> data.votes[n]]),
                     votes_count |-> value.votes_count + data.votes[n]])

\* mutant: votes_count is the number of voters
to_mastodon_json_voters(playlist, identity) ==
    LET data == question[playlist]
        loop == OptionLoop(data, 1, [options |-> << >>, votes_count |-> 0])
    IN [expired |-> at_end[playlist] \/ ended[playlist],
        multiple |-> mode[playlist] = "anyOf",
        votes_count |-> data.voter_count,
        voters_count |-> data.voter_count,
        voted |-> \/ author[playlist] = identity
                  \/ \E i \in VoteRows(interactions, playlist) :
                        interactions[i].identity = identity,
        options |-> loop.options]

\* QuestionData.to_mastodon_json(playlist, identity)
to_mastodon_json(playlist, identity) ==
    LET data == question[playlist]
        loop == OptionLoop(data, 1, [options |-> << >>, votes_count |-> 0])
    IN [expired |-> at_end[playlist] \/ ended[playlist],
        multiple |-> mode[playlist] = "anyOf",
        votes_count |-> loop.votes_count,
        voters_count |-> data.voter_count,
        voted |-> \/ author[playlist] = identity
                  \/ \E i \in VoteRows(interactions, playlist) :
                        interactions[i].identity = identity,
        options |-> loop.options]

\* the sum of the options' votes_count of a summary
RECURSIVE OptionSum(_, _)
OptionSum(options, n) ==
    IF n > Len(options) THEN 0
    ELSE options[n].votes_count + OptionSum(options, n + 1)

\* the votes, the instant of the poll's end_time and the time after it,
\* without the scheduler
NextPoll ==
    \/ \E identity \in Voters, playlist \in Playlists, choices \in ChoiceLists :
          CreateVotes(identity, playlist, choices)
    \/ \E actor \in Voters, uri \in Activities, playlist \in Playlists,
          name \in VoteNames : HandleApVote(actor, uri, playlist, name)
    \/ \E playlist \in Playlists : PollAtEnd(playlist)
    \/ \E playlist \in Playlists : PollEnds(playlist)

SpecPoll == InitVotes /\ [][NextPoll]_vars

\* C26: after create_votes of an identity succeeded, the summary for that
\* identity has voted = true, every chosen option's votes_count one higher
\* than in the summary before the call, and a votes_count that is the sum
\* of its options' votes_count; for a oneOf poll on which nothing had been
\* counted and the single choice A it has votes_count = 1 and the options
\* [{A, 1}, {B, 0}].
C26_PollSummary ==
    [][\A identity \in Voters, playlist \in Playlists, choices \in ChoiceLists :
         ( /\ CreateVotes(identity, playlist, choices)
           /\ choices # << >>
           /\ result'.outcome \notin Errors )
         => LET before == to_mastodon_json(playlist, identity)
                after == to_mastodon_json(playlist, identity)'
            IN /\ after.voted
               /\ \A choice \in ChoiceSet(choices) :
                    after.options[choice + 1].votes_count =
                      before.options[choice + 1].votes_count + 1
               /\ after.votes_count = OptionSum(after.options, 1)
               /\ ( /\ mode[playlist] = "oneOf"
                    /\ choices = <<0>>
                    /\ before.votes_count = 0 )
                  => /\ after.votes_count = 1
                     /\ after.options =
                          << [title |-> "A", votes_count |-> 1],
                             [title |-> "B", votes_count |-> 0] >>]_vars

\* C26 witness: identity 1, not the author, has its vote for A on a oneOf
\* poll and the summary shows one vote, for A
C26_Witness ==
    \E playlist \in Playlists :
        /\ mode[playlist] = "oneOf"
        /\ author[playlist] # 1
        /\ \E i \in InteractionIds :
             /\ interactions[i].type = "vote"
             /\ interactions[i].identity = 1
             /\ interactions[i].value = "A"
        /\ to_mastodon_json(playlist, 1).voted
        /\ to_mastodon_json(playlist, 1).votes_count = 1
        /\ to_mastodon_json(playlist, 1).options[1].votes_count = 1

\* ------------------------------------------------------------------------
\* the follows of x to the identity that are active / inactive
ActiveFollow(x, identity) ==
    \E f \in follows : f.source = x /\ f.target = identity /\ f.active

InactiveFollow(x, identity) ==
    \E f \in follows : f.source = x /\ f.target = identity /\ ~f.active

\* what the resolver enumerates for a stored boost or pin, and what reaches
\* the FanOut rows of it: the candidates and the actor's own row
EnumeratedFrom(id, x) ==
    LET inst == interactions[id] IN
    /\ x \in Candidates(inst)
         <=> \/ x = author[inst.playlist]
             \/ \E f \in follows :
                  /\ f.source = x /\ f.target = inst.identity /\ f.active
                  /\ (inst.type = "boost" => f.boosts)
    /\ (FannedOut(id) /\ x \in Recipients(NewRows(id)))
         => (x \in Candidates(inst) \/ x = inst.identity)

\* C31 as stated: the candidates are the author and the sources of the
\* active follows (for a boost those with boosts=True, for a pin all of
\* them), and the source of an inactive follow is never a candidate.
C31_Original ==
    \A id \in InteractionIds :
        interactions[id].type \in {"boost", "pin"}
        => \A x \in Ids :
             /\ EnumeratedFrom(id, x)
             /\ InactiveFollow(x, interactions[id].identity)
                  => x \notin Candidates(interactions[id])

\* C31 amended: the candidates are the author and the sources of the active
\* follows (for a boost those with boosts=True, for a pin all of them), and
\* the source of an inactive follow is not a candidate unless it is the
\* author.
C31_FollowerEnumeration ==
    \A id \in InteractionIds :
        interactions[id].type \in {"boost", "pin"}
        => \A x \in Ids :
             /\ EnumeratedFrom(id, x)
             /\ ( /\ InactiveFollow(x, interactions[id].identity)
                  /\ ~ActiveFollow(x, interactions[id].identity) )
                  => (x \in Candidates(interactions[id])
                        <=> x = author[interactions[id].playlist])

\* C31 witness: the pin of a local actor went to a follower with
\* boosts=False, and to an inactive follower exactly if that one is the
\* author of the playlist
C31_Witness ==
    \E id \in InteractionIds : \E x, y \in Ids :
        LET inst == interactions[id] IN
        /\ inst.type = "pin"
        /\ inst.state = "fanned_out"
        /\ local[inst.identity]
        /\ \E f \in follows : f.source = x /\ f.target = inst.identity
                              /\ f.active /\ ~f.boosts
        /\ InactiveFollow(y, inst.identity)
        /\ x \in Recipients(NewRows(id))
        /\ IF y = author[inst.playlist]
           THEN y \in Recipients(NewRows(id))
           ELSE y \notin Recipients(NewRows(id))

\* ------------------------------------------------------------------------
\* One interaction of identity 1, every worker of the scheduler, and every
\* operation that is called from outside the scheduler
NextExternal ==
    \/ \E type \in Types, playlist \in Playlists :
          /\ interactions = << >> \/ Matching(type, 1, playlist) # {}
          /\ InteractAs(1, type, playlist)
    \/ /\ interactions = << >>
       /\ \E wire \in {"Like", "Announce"}, uri \in Activities,
             playlist \in Playlists : HandleAp(1, wire, uri, playlist)
    \/ /\ interactions = << >>
       /\ \E playlist \in Playlists : HandleAddAp(1, playlist)
    \/ \E type \in Types, playlist \in Playlists : UninteractAs(1, type, playlist)
    \/ \E playlist \in Playlists : Delete(playlist)
    \/ \E actor \in Ids, uri \in Activities : HandleUndoAp(actor, uri)
    \/ \E playlist \in Playlists : HandleRemoveAp(1, playlist)
    \/ \E w \in Workers, id \in InteractionIds : Begin(w, id)
    \/ \E w \in Workers : Commit(w)
    \/ \E w \in Workers : Raise(w)
    \/ \E w \in Workers : Fault(w)

SpecExternal == Init /\ [][NextExternal]_vars

\* a step of the scheduler: a pass picks a row up, or a run ends
SchedulerStep ==
    \/ \E w \in Workers, id \in InteractionIds : Begin(w, id)
    \/ \E w \in Workers : Commit(w) \/ Raise(w) \/ Fault(w)

\* a step of one of the operations that are called from outside
ExternalStep ==
    \/ \E type \in Types, playlist \in Playlists : UninteractAs(1, type, playlist)
    \/ \E playlist \in Playlists : Delete(playlist)
    \/ \E actor \in Ids, uri \in Activities : HandleUndoAp(actor, uri)
    \/ \E playlist \in Playlists : HandleRemoveAp(1, playlist)

\* C32: no scheduler pass picks up an interaction that is in fanned_out, no
\* step of the scheduler (a run that ends, also the run of a worker that
\* had fetched the row in new) changes the state of an interaction in
\* fanned_out, and an interaction leaves fanned_out only in a step of
\* uninteract_as, PlaylistService.delete, handle_undo_ap or handle_remove_ap.
C32_ExternallyProgressed ==
    [][\A id \in InteractionIds :
         interactions[id].state = "fanned_out"
         => /\ \A w \in Workers : ~Begin(w, id)
            /\ SchedulerStep => interactions'[id].state = "fanned_out"
            /\ interactions'[id].state # "fanned_out" => ExternalStep]_vars

\* C32 witness: a worker that had fetched the row in new finished after the
\* row had been fanned out, every worker is idle again and the row is in
\* fanned_out
C32_Witness ==
    /\ result = [op |-> "handler", outcome |-> "stale"]
    /\ \A w \in Workers : workers[w].pc = "idle"
    /\ \E id \in InteractionIds :
         /\ interactions[id].state = "fanned_out"
         /\ interactions[id].state_next_attempt = interactions[id].state_changed

\* ------------------------------------------------------------------------
\* the types of the FanOut rows of the interaction addressed to the
\* identity, in creation order
TypesTo(id, x) ==
    LET rows == SelectSeq(fanouts,
                          LAMBDA r : r.interaction = id /\ r.identity = x)
    IN [k \in 1..Len(rows) |-> rows[k].type]

\* interaction, undo_interaction, interaction, ...
Alternates(types) ==
    \A k \in 1..Len(types) :
        types[k] = IF k % 2 = 1 THEN "interaction" ELSE "undo_interaction"

\* C33: for every interaction and every recipient, the FanOut rows of the
\* interaction addressed to the recipient alternate in creation order
\* between interaction and undo_interaction, starting with interaction.
C33_Alternation ==
    \A id \in InteractionIds : \A x \in Ids : Alternates(TypesTo(id, x))

\* ------------------------------------------------------------------------
\* create_votes under concurrency. The two checks are queries of their own,
\* before transaction.atomic() is entered; the rows and the tallies are
\* written in the transaction. Nothing is locked and no constraint makes a
\* second vote of the identity fail.
\* the checks of a call: the poll data is the one the caller's playlist
\* object carries from here on
VoteCheck(c, identity, playlist, choices) ==
    /\ local[identity]
    /\ calls[c].pc = "idle"
    /\ IF ended[playlist]
       THEN /\ UNCHANGED calls
            /\ result' = Outcome("create_votes", "PollExpired", 0)
       ELSE IF already_voted(interactions, identity, playlist)
       THEN /\ UNCHANGED calls
            /\ result' = Outcome("create_votes", "DuplicateVote", 0)
       ELSE /\ calls' = [calls EXCEPT ![c] =
                           [pc |-> "checked", identity |-> identity,
                            playlist |-> playlist, choices |-> choices,
                            data |-> question[playlist]]]
            /\ result' = Outcome("create_votes", "checked", 0)
    /\ UNCHANGED <<config, stator, poll, stats, timeline_events, interactions,
                   fanouts, workers, faults>>

\* the transaction of a call that passed its checks
VoteCommit(c) ==
    /\ calls[c].pc = "checked"
    /\ LET identity == calls[c].identity
           playlist == calls[c].playlist
           choices == calls[c].choices
       IN /\ Len(interactions) + Cardinality(ChoiceSet(choices)) <= MaxVotes
          /\ calls[c].data.voter_count < MaxVotes
          /\ \E ord \in Orders(ChoiceSet(choices)) :
               LET loop == VoteLoop(identity, playlist, ord, 1, interactions,
                                    calls[c].data)
                   counted == IF playlist_local[playlist] THEN loop.data
                              ELSE [loop.data EXCEPT !.voter_count = @ + 1]
               IN IF loop.raised
                  THEN /\ interactions' = AtomicVotes(interactions, loop.rows)
                       /\ UNCHANGED question
                       /\ result' = Outcome("create_votes", "IndexError", 0)
                  ELSE /\ interactions' = loop.rows
                       /\ question' = [question EXCEPT ![playlist] =
                                         calculate_type_data(counted, loop.rows,
                                                             playlist)]
                       /\ result' = Outcome("create_votes", "created", 0)
    /\ calls' = [calls EXCEPT ![c] = NoCall]
    /\ UNCHANGED <<config, stator, expiry, stats, timeline_events, fanouts,
                   workers, faults>>

\* the calls of the local identity 1, each with one or two valid choices
InitRace == InitVotes /\ local[1]

RaceChoices == { <<0>>, <<1>>, <<0, 1>> }

NextRace ==
    \/ \E c \in Calls, playlist \in Playlists, choices \in RaceChoices :
          VoteCheck(c, 1, playlist, choices)
    \/ \E c \in Calls : VoteCommit(c)
    \/ \E playlist \in Playlists : PollEnds(playlist)

SpecRace == InitRace /\ [][NextRace]_vars

\* the vote rows of an identity on a playlist
VotesOf(identity, playlist) ==
    { i \in VoteRows(interactions, playlist) :
        interactions[i].identity = identity }

\* C34: of the create_votes calls of one identity on one poll, in whatever
\* order their steps are taken, at most one creates vote rows: a step that
\* adds vote rows of an identity is taken when the identity has none.
C34_OneCallWins ==
    [][\A identity \in Voters, playlist \in Playlists :
         VotesOf(identity, playlist)' # VotesOf(identity, playlist)
         => VotesOf(identity, playlist) = {}]_vars

\* ------------------------------------------------------------------------
\* C35: at every instant, create_votes fails with the poll-ended error
\* exactly if the summary to_mastodon_json gives at that instant has
\* expired = true, and an inbound vote whose id is not stored is dropped if
\* the summary has expired = true and stored if it has not (and the poll's
\* mode allows the vote); the instant that equals end_time included.
C35_ExpiryConsistent ==
    [][ /\ \A identity \in Voters, playlist \in Playlists,
              choices \in ChoiceLists :
             CreateVotes(identity, playlist, choices)
             => (result'.outcome = "PollExpired"
                   <=> to_mastodon_json(playlist, identity).expired)
        /\ \A actor \in Voters, uri \in Activities, playlist \in Playlists,
              name \in VoteNames :
             (HandleApVote(actor, uri, playlist, name) /\ ByUri(uri) = {})
             => IF to_mastodon_json(playlist, actor).expired
                THEN interactions' = interactions
                ELSE (mode[playlist] = "anyOf" \/ ~HasVote(actor, playlist))
                     => Len(interactions') = Len(interactions) + 1
      ]_vars

\* ------------------------------------------------------------------------
\* the identities with at least one vote row on the playlist, and the
\* vote rows with the name of option n
VotersOf(playlist) ==
    { interactions[i].identity : i \in VoteRows(interactions, playlist) }

RowsFor(playlist, n) ==
    { i \in VoteRows(interactions, playlist) :
        interactions[i].value = OptionNames[n] }

\* C36: every create_votes call on a remote poll, whatever its list of
\* choices, raises voter_count by the number of identities that have a vote
\* row on the playlist after it and had none before, and raises the votes of
\* each option by the number of vote rows with the option's name it added.
C36_VoterCountMatches ==
    [][\A identity \in Voters, playlist \in Playlists, choices \in ChoiceLists :
         (CreateVotes(identity, playlist, choices) /\ ~playlist_local[playlist])
         => /\ question'[playlist].voter_count - question[playlist].voter_count
                 = Cardinality(VotersOf(playlist)')
                   - Cardinality(VotersOf(playlist))
            /\ \A n \in 1..Len(OptionNames) :
                 question'[playlist].votes[n] - question[playlist].votes[n]
                   = Cardinality(RowsFor(playlist, n)')
                     - Cardinality(RowsFor(playlist, n))]_vars

\* ------------------------------------------------------------------------
\* Pins: pin_as and unpin_as of the author on its playlists
\* "count() >= 5"
MaxPins == 5

\* the playlists of the pin limit: one more than can be pinned
PinPlaylists == 1..(MaxPins + 1)

\* PlaylistInteraction.objects.filter(type=pin, identity=identity).count()
PinCount(identity) ==
    Cardinality({ i \in InteractionIds :
                    /\ interactions[i].type = "pin"
                    /\ interactions[i].identity = identity })

\* PlaylistService.pin_as; visibility is the playlist's
PinAs(identity, playlist, visibility) ==
    IF \/ identity # author[playlist]
       \/ visibility = "mentioned"
       \/ PinCount(identity) >= MaxPins
    THEN /\ result' = Outcome("pin_as", "ValueError", 0)
         /\ UNCHANGED <<config, calls, stator, poll, stats, timeline_events,
                        interactions, fanouts, workers, faults>>
    ELSE InteractAsWithin(identity, "pin", playlist, MaxPins + 1)

\* PlaylistService.unpin_as
UnpinAs(identity, playlist) == UninteractAs(identity, "pin", playlist)

\* identity 1 is local, has written every playlist and has no follower
InitPins ==
    /\ local = [i \in Ids |-> TRUE]
    /\ shared_inbox_uri = [i \in Ids |-> None]
    /\ follows = {}
    /\ blocks = {}
    /\ author = [p \in PinPlaylists |-> 1]
    /\ playlist_local = [p \in PinPlaylists |-> TRUE]
    /\ mode = [p \in PinPlaylists |-> "oneOf"]
    /\ question = [p \in PinPlaylists |->
                     [votes |-> [n \in 1..Len(OptionNames) |-> 0],
                      voter_count |-> 0]]
    /\ ended = [p \in PinPlaylists |-> FALSE]
    /\ at_end = [p \in PinPlaylists |-> FALSE]
    /\ stats = [p \in PinPlaylists |-> calculate_stats(<< >>, p)]
    /\ timeline_events = {}
    /\ interactions = << >>
    /\ fanouts = << >>
    /\ workers = [w \in Workers |-> Idle]
    /\ faults = 0
    /\ result = Outcome("init", "ok", 0)
    /\ now = 0
    /\ elapses = 0
    /\ purged = {}
    /\ calls = [c \in Calls |-> NoCall]
    /\ playlist_states =
         [p \in PinPlaylists |->
            [state |-> "outdated", state_changed |-> 0,
             state_next_attempt |-> 0]]

\* the row the scheduler's pass takes first: the oldest one that is due
FirstDue(id) ==
    /\ interactions[id].state \in AutoStates
    /\ \A other \in InteractionIds :
         interactions[other].state \in AutoStates => id <= other

\* the playlists are pinned in the order of their numbers (they differ in
\* nothing else), by the author or by somebody else
NextPins ==
    \/ \E identity \in {1, 2}, playlist \in PinPlaylists,
          visibility \in {"public", "mentioned"} :
          /\ playlist <= Len(interactions) + 1
          /\ PinAs(identity, playlist, visibility)
    \/ \E playlist \in PinPlaylists : UnpinAs(1, playlist)
    \/ \E id \in InteractionIds : FirstDue(id) /\ Begin(1, id)
    \/ Commit(1)

SpecPins == InitPins /\ [][NextPins]_vars

\* the pins of an identity in an active state, on whatever playlist
ActivePinsOf(identity) ==
    { i \in InteractionIds :
        /\ interactions[i].type = "pin"
        /\ interactions[i].identity = identity
        /\ interactions[i].state \in group_active }

\* C37: pin_as by the author of a playlist that is not mentioned-only, the
\* author having fewer than 5 pins in new or fanned_out (and no undone pin
\* of this playlist), does not raise: if the playlist is pinned already
\* nothing changes, otherwise the playlist has an active pin afterwards.
C37_PinLimitActiveOnly ==
    [][\A playlist \in PinPlaylists, visibility \in {"public", "mentioned"} :
         ( /\ PinAs(1, playlist, visibility)
           /\ author[playlist] = 1
           /\ visibility # "mentioned"
           /\ Cardinality(ActivePinsOf(1)) < 5
           /\ Matching("pin", 1, playlist) \subseteq ActivePinsOf(1) )
         => /\ result'.outcome \notin Errors
            /\ IF ActivePins(1, playlist) # {}
               THEN interactions' = interactions /\ fanouts' = fanouts
               ELSE \E i \in 1..Len(interactions') :
                      /\ interactions'[i].type = "pin"
                      /\ interactions'[i].playlist = playlist
                      /\ interactions'[i].state = "new"]_vars

\* ------------------------------------------------------------------------
\* a step of handle_ap for the activity with the id: a Like or an Announce
\* (on a playlist that resolves or on one that does not), or a vote
HandlesActivity(uri) ==
    \/ \E wire \in {"Like", "Announce"},
          playlist \in Playlists \cup {Unresolvable} :
          HandleAp(1, wire, uri, playlist)
    \/ \E playlist \in Playlists, name \in VoteNames :
          HandleApVote(1, uri, playlist, name)

\* C38 as stated: after handle_ap has handled an activity, there is exactly
\* one interaction with the activity's id as its object_uri, and a stored
\* interaction is left as it was.
C38_Original ==
    [][\A uri \in InboundUris :
         HandlesActivity(uri)
         => /\ Cardinality(ByUri(uri)') = 1
            /\ \A i \in InteractionIds : interactions'[i] = interactions[i]]_vars

\* C38 amended: after handle_ap has handled an activity there is exactly one
\* interaction with the activity's id as its object_uri, or none if the
\* activity was dropped (its playlist does not resolve, its vote does not
\* apply); an activity whose interaction is stored adds no row, and every
\* stored interaction is left as it was, its state included. No two
\* interactions ever have the same activity id.
C38_InboundIdempotent ==
    /\ [][\A uri \in InboundUris :
            HandlesActivity(uri)
            => /\ Cardinality(ByUri(uri)') =
                    (IF result'.outcome = NotFound THEN 0 ELSE 1)
               /\ ByUri(uri) # {}
                    => (interactions' = interactions /\ fanouts' = fanouts)
               /\ \A i \in InteractionIds :
                    interactions'[i] = interactions[i]]_vars
    /\ [](\A uri \in InboundUris : Cardinality(ByUri(uri)) <= 1)

\* C38 witness: the activity of a like that is stored, fanned out and on a
\* timeline was handled once more; the like is there once, fanned out
C38_Witness ==
    /\ result = [op |-> "handle_ap", outcome |-> "found"]
    /\ \E id \in InteractionIds :
         /\ interactions[id].type = "like"
         /\ interactions[id].state = "fanned_out"
         /\ id \in timeline_events
         /\ ByUri(interactions[id].object_uri) = {id}

\* ------------------------------------------------------------------------
\* the remote candidates of the interaction that the actor does not block
RemoteUnblocked(inst) ==
    { t \in Seeded(inst) \ HardBlocked(inst.identity) : ~local[t] }

\* C39: for a fanned-out boost or pin of a local actor, every non-empty
\* shared_inbox_uri of an unblocked remote candidate is the shared inbox of
\* exactly one of the remote identities that got a FanOut row, and every
\* unblocked remote candidate with no shared inbox (None or "") got a
\* FanOut row itself.
C39_NoInboxLost ==
    \A id \in InteractionIds :
        ( /\ interactions[id].type \in {"boost", "pin"}
          /\ local[interactions[id].identity]
          /\ FannedOut(id) )
        => LET inst == interactions[id]
               got == { r \in Recipients(NewRows(id)) : ~local[r] }
           IN \A t \in RemoteUnblocked(inst) :
                IF Falsy(shared_inbox_uri[t])
                THEN t \in got
                ELSE Cardinality({ r \in got : shared_inbox_uri[r] =
                                                 shared_inbox_uri[t] }) = 1

\* C39 witness: the boost of a local actor with two remote candidates, one
\* with a shared inbox and one without: both got their row
C39_Witness ==
    \E id \in InteractionIds : \E a, b \in Ids :
        LET inst == interactions[id] IN
        /\ inst.type = "boost"
        /\ inst.state = "fanned_out"
        /\ local[inst.identity]
        /\ {a, b} \subseteq RemoteUnblocked(inst)
        /\ ~Falsy(shared_inbox_uri[a])
        /\ Falsy(shared_inbox_uri[b])
        /\ {a, b} \subseteq Recipients(NewRows(id))

\* ------------------------------------------------------------------------
\* The local identity 1 boosts, votes and takes both back, in any order, with
\* one scheduler worker; the table has room for one row more than there are
\* keys
LocalTypes == {"boost", "vote"}

LocalRows == Cardinality(LocalTypes) * Cardinality(Playlists) + 1

InitLocal == Init /\ local[1]

NextLocal ==
    \/ \E type \in LocalTypes, playlist \in Playlists :
          InteractAsWithin(1, type, playlist, LocalRows)
    \/ \E type \in LocalTypes, playlist \in Playlists :
          UninteractAs(1, type, playlist)
    \/ \E id \in InteractionIds : Begin(1, id)
    \/ Commit(1)
    \/ Raise(1)

SpecLocal == InitLocal /\ [][NextLocal]_vars

\* the interaction is in one of the states of group_active
ActiveRow(type, identity, playlist) ==
    \E i \in Matching(type, identity, playlist) :
        interactions[i].state \in {"new", "fanned_out"}

\* C40: whatever interact_as and uninteract_as calls were made, no (type,
\* identity, playlist) has more than one row, and an interact_as call on an
\* interaction that is in new or fanned_out leaves every row, every FanOut
\* row and the statistics as they were.
C40_UniqueAndIdempotent ==
    [][ /\ \A type \in Types, identity \in Ids, playlist \in Playlists :
              Cardinality(Matching(type, identity, playlist))' <= 1
        /\ \A type \in LocalTypes, playlist \in Playlists :
              ( /\ ActiveRow(type, 1, playlist)
                /\ InteractAsWithin(1, type, playlist, LocalRows) )
              => /\ interactions' = interactions
                 /\ fanouts' = fanouts
                 /\ stats' = stats ]_vars

\* C40 witness: the boost and the vote have both been fanned out, and
\* interact_as was just called on one of them and found it active
C40_Witness ==
    /\ Len(interactions) = 2
    /\ \A i \in InteractionIds : interactions[i].state = "fanned_out"
    /\ result = [op |-> "interact_as", outcome |-> "active"]

====
